---------------------------- MODULE Spec2Model ----------------------------
(***************************************************************************)
(* Download orchestration and installation pipeline of the RimWorld        *)
(* workshop downloader (src/backend/src).                                  *)
(*                                                                         *)
(*   SpecOrch  Downloader::download_mods_with_sizes and the batches and    *)
(*             completion detectors it drives, with a consumer that loops  *)
(*             on receive (steamcmd_client.rs).                            *)
(*   FairOrch  SpecOrch with the fairness the tokio scheduler gives, and   *)
(*             every fetch-tool process eventually exiting.                *)
(*   SpecDl    concurrent download_mod calls (download_handlers.rs).       *)
(*   SpecInst, SpecName  update_mod and restore_backup (mod_manager.rs,    *)
(*             backup_handlers.rs).                                        *)
(*   SpecBal   the load balancers applied to one request.                  *)
(*   SpecUpd   update_mods with the orchestrator, its install tasks and    *)
(*             the cancel flag (update_handlers.rs).                       *)
(*   SpecDlOrch  download_mod with the orchestrator's run it reads from.   *)
(*   SpecRst   restore_backup called once, with its checks of the paths.   *)
(*   SpecSan   sanitize_folder_name applied to one name.                   *)
(*   SpecWatch  update_mod with the watcher of the mods folder             *)
(*             (mod_watcher.rs).                                           *)
(*   SpecScript  the batch-script file of the download_mods_batch          *)
(*             invocations of orchestration runs that overlap in time.     *)
(***************************************************************************)
EXTENDS Naturals, Integers, Sequences, FiniteSets, TLC

(***************************************************************************)
(* Bounds of the model.                                                    *)
(***************************************************************************)
NumItems == 2          \* item IDs 1..NumItems may be requested
MaxInstances == 2      \* max_instances is drawn from 1..MaxInstances
MaxSize == 1           \* size hints are drawn from 0..MaxSize
MaxLag == 1            \* messages the consumer may lag behind the producer
CountCap == 2          \* message counters stop at CountCap ("or more")
NumCalls == 2          \* concurrent download_mod calls
NumTasks == 2          \* concurrent update_mod / restore_backup calls
BalItems == 4          \* the balancers are applied to 1..BalItems items,
BalMaxSize == 3        \* with sizes 0..BalMaxSize
BalInstances == 3      \* and 1..BalInstances instances
MaxHandles == 3        \* install tasks one update_mods run may spawn
ShortChain == 2        \* underscore chains of 0..ShortChain folders, and
LongChainExtra == 1    \* of SAFETY_LIMIT..SAFETY_LIMIT+LongChainExtra folders
MaxNameLen == 5        \* sanitize_folder_name is given 0..MaxNameLen characters
NameCap == 3           \* the length limit of a folder name, 200 in the code
NumRuns == 2           \* orchestration runs that overlap in time

(***************************************************************************)
(* Program constants.                                                      *)
(***************************************************************************)
MAX_RETRIES == 6
CHANNEL_CAPACITY == 100
SAFETY_LIMIT == 50     \* underscores a suffix loop appends before it gives up
REMOVE_RETRIES == 3    \* remove_dir_with_retry(&mod_destination_path, 3, 200)

Items == 1..NumItems
Calls == 1..NumCalls
Tasks == 1..NumTasks

VARIABLES
    \* ---- download_mods_with_sizes: inputs and the spawned task's locals
    mod_ids,            \* the request (sequence of distinct item IDs)
    has_sizes,          \* mod_sizes is Some
    mod_sizes,          \* size hint per item (0 when absent from the map)
    max_instances,
    remaining_mod_ids,
    retry_count,
    opc,                \* position of the spawned task
    tidx,               \* index of the next terminal failure to send
    \* ---- download_mods_single_attempt_static / download_mods_batch
    batches,            \* batches of the running attempt
    bstate,             \* per batch: position of download_mods_batch
    cidx,               \* per batch: index of the result loop
    det,                \* per item: result of wait_for_mod_download_static
    failed_mods_tracker,\* IDs the output readers put in the failure set
    downloaded_mods,    \* IDs pushed to downloaded_mods in this attempt
    \* ---- environment
    dl,                 \* download folder of each item on disk
    \* ---- output channel and its consumer
    chan,               \* messages in flight
    tx_dropped,         \* every sender is dropped (channel closed)
    rx_done,            \* the receiver is gone: it got None, or was dropped
    \* ---- observers
    sent,               \* per item: messages sent, by kind
    attempts,           \* per item: attempts that contained the item
    \* ---- download_mod command (download_handlers.rs)
    active_downloads,   \* Downloader.active_downloads (IDs marked downloading)
    dpc,                \* per call: position in download_mod
    did,                \* per call: the mod_id argument
    dres,               \* per call: what the call returned
    \* ---- ModUpdater::update_mod and restore_backup
    mods,               \* the mods folder: folder name -> folder content
    backups,            \* the backup directory: folder name -> folder content
    downloads,          \* the download folder: item ID -> folder content
    ignored,            \* paths the watcher ignores
    cancelled,          \* the update cancellation flag
    targ,               \* per task: the arguments of the call
    tpc,                \* per task: position in update_mod / restore_backup
    tdest,              \* per task: folder_name once resolved
    tvia,               \* per task: how folder_name was resolved
    tres,               \* per task: what the call returned
    tattempt,           \* per task: attempt of remove_dir_with_retry
    \* ---- update_mods (commands/update_handlers.rs)
    app,                \* the run has an AppHandle: lifecycle events are emitted
    upc,                \* position of update_mods
    ucur,               \* the message recv() returned, while it is handled
    seen_mod_ids,       \* seen_mod_ids
    update_handles,     \* the spawned install tasks, in spawn order
    returned,           \* the Vec<BaseMod> update_mods returned
    events,             \* per item: terminal lifecycle states emitted
    \* ---- ModUpdater::sanitize_folder_name applied to one name
    san_pc,             \* "call", then "returned" or "panicked"
    san_name,           \* the argument, a sequence of characters
    san_out,            \* the String returned
    \* ---- ModWatcher (core/mod_watcher.rs)
    fs_seen,            \* paths the notify backend holds as existing
    fsq,                \* events in the channel to the processing task
    wcur,               \* the event process_fs_event sleeps on
    known_mods,         \* known_mods: folder name -> item ID
    emitted,            \* the mod-removed events emitted to the frontend
    \* ---- the batch script of download_mods_batch (core/steamcmd_client.rs)
    run_batches,        \* per orchestration run: non-empty batches of its attempt
    script_pc,          \* per run and batch: position of download_mods_batch
    script_res,         \* per run and batch: what download_mods_batch returned
    script_files        \* the script files on disk: path -> who wrote it

orchVars == <<mod_ids, has_sizes, mod_sizes, max_instances, remaining_mod_ids,
              retry_count, opc, tidx, batches, bstate, cidx, det,
              failed_mods_tracker, downloaded_mods, dl, chan, tx_dropped,
              rx_done, sent, attempts>>

dlVars == <<active_downloads, dpc, did, dres>>

instVars == <<mods, backups, downloads, ignored, cancelled, targ, tpc, tdest,
              tvia, tres, tattempt>>

consVars == <<app, upc, ucur, seen_mod_ids, update_handles, returned>>

updVars == <<consVars, events>>

sanVars == <<san_pc, san_name, san_out>>

watchVars == <<fs_seen, fsq, wcur, known_mods, emitted>>

scriptVars == <<run_batches, script_pc, script_res, script_files>>

auxVars == <<sanVars, watchVars, scriptVars>>

vars == <<orchVars, dlVars, instVars, updVars, auxVars>>

\* a folder name is a sequence of pieces; no name is the empty sequence
NoName == <<>>

\* absent identifier (Option::None of an item ID or a package identifier)
NoId == ""

NoArgs == [kind |-> "off", mod_id |-> NoId, existing |-> NoName,
           title |-> NoId, backup |-> FALSE, decision |-> "none"]

\* no download_mod call is made
DlOff ==
    /\ active_downloads = {}
    /\ dpc = [c \in Calls |-> "off"]
    /\ did = [c \in Calls |-> 0]
    /\ dres = [c \in Calls |-> "none"]

\* a directory without folders
EmptyDir == [n \in {} |-> 0]

\* no update_mod or restore_backup call is made
InstOff ==
    /\ mods = EmptyDir /\ backups = EmptyDir /\ downloads = EmptyDir
    /\ ignored = {}
    /\ cancelled = FALSE
    /\ targ = [t \in Tasks |-> NoArgs]
    /\ tpc = [t \in Tasks |-> "off"]
    /\ tdest = [t \in Tasks |-> NoName]
    /\ tvia = [t \in Tasks |-> "none"]
    /\ tres = [t \in Tasks |-> "none"]
    /\ tattempt = [t \in Tasks |-> 0]

\* no message is being handled
NoMsg == [kind |-> "none", id |-> 0]

NoEvents == [i \in Items |-> {}]

\* no update_mods call is made, and the run has no AppHandle
UpdOff ==
    /\ app = FALSE
    /\ upc = "off" /\ ucur = NoMsg
    /\ seen_mod_ids = {} /\ update_handles = <<>> /\ returned = <<>>
    /\ events = NoEvents

NoFsEvent == [kind |-> "none", path |-> <<>>]

\* sanitize_folder_name is not called, and no watcher is started
ScriptOff ==
    /\ run_batches = <<>> /\ script_pc = <<>> /\ script_res = <<>>
    /\ script_files = <<>>

AuxOff ==
    /\ ScriptOff
    /\ san_pc = "off" /\ san_name = <<>> /\ san_out = <<>>
    /\ fs_seen = {} /\ fsq = <<>> /\ wcur = NoFsEvent
    /\ known_mods = <<>> /\ emitted = {}

\* no orchestration run is made
OrchOff ==
    /\ mod_ids = <<>> /\ has_sizes = FALSE
    /\ mod_sizes = [i \in Items |-> 0]
    /\ max_instances = 1
    /\ remaining_mod_ids = <<>> /\ retry_count = 0
    /\ opc = "off" /\ tidx = 0
    /\ batches = <<>>
    /\ bstate = [b \in 1..MaxInstances |-> "none"]
    /\ cidx = [b \in 1..MaxInstances |-> 0]
    /\ det = [i \in Items |-> "idle"]
    /\ failed_mods_tracker = {} /\ downloaded_mods = {}
    /\ dl = [i \in Items |-> "absent"]
    /\ chan = <<>> /\ tx_dropped = FALSE /\ rx_done = FALSE
    /\ sent = [i \in Items |-> [n |-> 0, ok |-> FALSE, final |-> 0]]
    /\ attempts = [i \in Items |-> 0]

(***************************************************************************)
(* Helpers on sequences.                                                   *)
(***************************************************************************)
Range(s) == {s[k] : k \in 1..Len(s)}

Min(a, b) == IF a < b THEN a ELSE b

\* requests of distinct IDs; IDs are opaque, so a request of n items is
\* <<1, ..., n>> (size hints range over every map)
Requests == {[k \in 1..n |-> k] : n \in 1..NumItems}

(***************************************************************************)
(* Load balancer.                                                          *)
(***************************************************************************)
\* mutant: the first batch starts with an entry left in it
EmptyBatches_NotCleared(n) == [b \in 1..n |-> IF b = 1 THEN <<1>> ELSE <<>>]

\* vec![Vec::new(); num_instances]
EmptyBatches(n) == [b \in 1..n |-> <<>>]

\* mutant: every item goes to the first batch
RoundRobinSlot_First(idx, n) == 1

\* idx % num_instances, for the item at position idx (counted from 1) and
\* batches counted from 1
RoundRobinSlot(idx, n) == ((idx - 1) % n) + 1

RECURSIVE RoundRobinFrom(_, _, _, _)
RoundRobinFrom(ids, n, idx, acc) ==
    IF idx > Len(ids) THEN acc
    ELSE RoundRobinFrom(ids, n, idx + 1,
             [acc EXCEPT ![RoundRobinSlot(idx, n)] = Append(@, ids[idx])])

\* batches[idx % num_instances].push(mod_id)
balance_mods_round_robin(ids, n) == RoundRobinFrom(ids, n, 1, EmptyBatches(n))

\* stable insertion of x into a sequence sorted by size descending
RECURSIVE InsertDesc(_, _, _)
InsertDesc(s, x, size) ==
    IF s = <<>> THEN <<x>>
    ELSE IF size[Head(s)] >= size[x]
         THEN <<Head(s)>> \o InsertDesc(Tail(s), x, size)
         ELSE <<x>> \o s

RECURSIVE SortBySizeDesc(_, _, _)
SortBySizeDesc(ids, idx, size) ==
    IF idx = 0 THEN <<>>
    ELSE InsertDesc(SortBySizeDesc(ids, idx - 1, size), ids[idx], size)

\* mutant: the first instance is taken whatever its load
MinLoadIdx_AlwaysFirst(loads) == 1

\* first index of the minimum load (Iterator::min_by_key keeps the first)
MinLoadIdx(loads) ==
    CHOOSE b \in DOMAIN loads :
        /\ \A c \in DOMAIN loads : loads[b] <= loads[c]
        /\ \A c \in DOMAIN loads : (c < b) => (loads[c] > loads[b])

RECURSIVE GreedyFrom(_, _, _, _, _)
GreedyFrom(sorted, size, idx, loads, acc) ==
    IF idx > Len(sorted) THEN acc
    ELSE LET m == MinLoadIdx(loads)
         IN GreedyFrom(sorted, size, idx + 1,
                [loads EXCEPT ![m] = @ + size[sorted[idx]]],
                [acc EXCEPT ![m] = Append(@, sorted[idx])])

balance_mods_by_size(ids, size, n) ==
    GreedyFrom(SortBySizeDesc(ids, Len(ids), size), size, 1,
               [b \in 1..n |-> 0], EmptyBatches(n))

\* mutant: one instance per item, whatever max_instances is
AttemptBatches_OnePerItem(ids, withSizes, size, maxInst) ==
    IF withSizes THEN balance_mods_by_size(ids, size, Len(ids))
    ELSE balance_mods_round_robin(ids, Len(ids))

\* num_instances = min(mod_ids.len(), max_instances), then one of the balancers
AttemptBatches(ids, withSizes, size, maxInst) ==
    LET n == Min(Len(ids), maxInst)
    IN IF withSizes THEN balance_mods_by_size(ids, size, n)
       ELSE balance_mods_round_robin(ids, n)

(***************************************************************************)
(* Output channel: tokio mpsc::channel(100).                               *)
(***************************************************************************)
\* Ok(DownloadedMod) and the per-item Err strings of download_mods_batch name
\* the item; the terminal Err("Download failed after 6 attempts") does not
Msg(kind, id) == [kind |-> kind, id |-> IF kind = "final" THEN 0 ELSE id]

\* send().await waits for room while the receiver lives, and returns Err at
\* once (ignored by every sender: let _ = ...) when the receiver was dropped
CanSend == rx_done \/ (Len(chan) < CHANNEL_CAPACITY /\ Len(chan) < MaxLag)

Push(m) == IF rx_done THEN chan ELSE Append(chan, m)

\* emit_mod_state(app, id, state), a no-op without an AppHandle; only the
\* terminal states are recorded
Emit(ids, state) ==
    [i \in Items |-> IF app /\ i \in ids THEN events[i] \cup {state}
                                       ELSE events[i]]

\* parse_steamcmd_output: will_retry, the item is in the mods_to_retry set the
\* attempt was started with (None on the first attempt, empty on the last)
WillRetry(rc) == rc > 0 /\ rc < MAX_RETRIES

Bump(n) == IF n < CountCap THEN n + 1 ELSE n

\* observer of the sends for an item: how many messages, whether one of them
\* was a success, how many were terminal failures
Count(kind, id) ==
    [sent EXCEPT ![id] = [n |-> Bump(@.n),
                          ok |-> @.ok \/ kind = "ok",
                          final |-> IF kind = "final" THEN Bump(@.final)
                                    ELSE @.final]]

\* the attempts observer stops counting past the attempts the loop can make
AttemptCap == MAX_RETRIES + 2

NoSent == [i \in Items |-> [n |-> 0, ok |-> FALSE, final |-> 0]]

(***************************************************************************)
(* download_mods_with_sizes: the spawned retry loop.                       *)
(***************************************************************************)
\* mutant: the loop stops one attempt early
LoopCondition_OffByOne(rem, rc) == rem # <<>> /\ rc < MAX_RETRIES

\* while !remaining_mod_ids.is_empty() && retry_count <= MAX_RETRIES
LoopCondition(rem, rc) == rem # <<>> /\ rc <= MAX_RETRIES

\* if retry_count < MAX_RETRIES { retry-queued } else { terminal failures }
RetriesLeft(rc) == rc < MAX_RETRIES

\* mutant: the retry counter is not advanced
NextRetryCount_Stuck(rc) == rc

\* retry_count += 1
NextRetryCount(rc) == rc + 1

\* remaining_mod_ids filtered by !downloaded_mod_ids.contains(id)
FilterRemaining(rem, done) == SelectSeq(rem, LAMBDA id : id \notin done)

NoBatchState == [b \in 1..MaxInstances |-> "none"]
NoIdx == [b \in 1..MaxInstances |-> 0]
NoDet == [i \in Items |-> "idle"]

\* the state when the spawned task starts, for a request with the given
\* size-hint choice
OrchStart(withSizes) ==
    /\ mod_ids \in Requests
    /\ has_sizes \in withSizes
    /\ mod_sizes \in [Items -> 0..MaxSize]
    /\ \A i \in Items : (~has_sizes \/ i \notin Range(mod_ids)) => mod_sizes[i] = 0
    /\ max_instances \in 1..MaxInstances
    /\ remaining_mod_ids = mod_ids
    /\ retry_count = 0
    /\ opc = "loop"
    /\ tidx = 0
    /\ batches = <<>>
    /\ bstate = NoBatchState
    /\ cidx = NoIdx
    /\ det = NoDet
    /\ failed_mods_tracker = {}
    /\ downloaded_mods = {}
    /\ dl = [i \in Items |-> "absent"]
    /\ chan = <<>>
    /\ tx_dropped = FALSE
    /\ rx_done = FALSE
    /\ sent = NoSent
    /\ attempts = [i \in Items |-> 0]
    /\ DlOff /\ InstOff /\ UpdOff /\ AuxOff

InitOrch == OrchStart(BOOLEAN)

\* download_mods: no size hints
InitOrchNoSizes == OrchStart({FALSE})

\* One pass of the while loop up to join_all(batch_futures) in
\* download_mods_single_attempt_static (backoff sleep included). The attempt
\* either fails before any batch starts (download directory cannot be
\* created, executable not found) or starts one download_mods_batch per
\* non-empty batch; a batch whose script write or spawn fails returns Err at
\* once, the others have their fetch-tool process running.
StartAttempt ==
    /\ opc = "loop"
    /\ LoopCondition(remaining_mod_ids, retry_count)
    /\ attempts' = [i \in Items |->
                      IF i \in Range(remaining_mod_ids)
                      THEN Min(attempts[i] + 1, AttemptCap) ELSE attempts[i]]
    /\ \E early \in BOOLEAN :
         IF early
         THEN /\ opc' = "attempt_err"
              /\ UNCHANGED <<batches, bstate, cidx, det>>
         ELSE LET bs == AttemptBatches(remaining_mod_ids, has_sizes,
                                       mod_sizes, max_instances)
              IN /\ opc' = "attempt"
                 /\ batches' = bs
                 /\ bstate' \in [1..MaxInstances -> {"none", "running", "err"}]
                 /\ \A b \in 1..MaxInstances :
                        (bstate'[b] = "none") <=>
                            ~(b \in DOMAIN bs /\ bs[b] # <<>>)
                 /\ cidx' = NoIdx
                 /\ det' = [i \in Items |->
                              IF i \in Range(remaining_mod_ids)
                              THEN "pending" ELSE "idle"]
    /\ UNCHANGED <<mod_ids, has_sizes, mod_sizes, max_instances,
                   remaining_mod_ids, retry_count, tidx, failed_mods_tracker,
                   downloaded_mods, dl, chan, tx_dropped, rx_done, sent>>
    /\ UNCHANGED <<dlVars, instVars, updVars, auxVars>>


(***************************************************************************)
(* download_mods_batch: one fetch-tool invocation for one batch.           *)
(***************************************************************************)
BatchOf(i) == CHOOSE b \in DOMAIN batches : i \in Range(batches[b])

InBatch(b, i) == b \in DOMAIN batches /\ i \in Range(batches[b])

orchLocals == <<mod_ids, has_sizes, mod_sizes, max_instances,
                remaining_mod_ids, retry_count, opc, tidx>>

\* parse_steamcmd_output reads "ERROR! Download item <id> failed" after the
\* process has exited: the reader tasks run until the pipes are drained
ToolReportsFailure(b, i) ==
    /\ bstate[b] = "detect" /\ InBatch(b, i)
    /\ i \notin failed_mods_tracker
    /\ failed_mods_tracker' = failed_mods_tracker \cup {i}
    /\ events' = IF WillRetry(retry_count) THEN events ELSE Emit({i}, "failed")
    /\ UNCHANGED <<orchLocals, batches, bstate, cidx, det, downloaded_mods,
                   dl, chan, tx_dropped, rx_done, sent, attempts>>
    /\ UNCHANGED <<dlVars, instVars, consVars>>
    /\ UNCHANGED auxVars

\* the running process creates, fills or clears the folder of an item of
\* its script; the detectors of the batch are futures that nothing polls
\* before join_all, so nothing reads the folder while the process runs
ToolWritesFolder(b, i) ==
    /\ bstate[b] = "running" /\ InBatch(b, i)
    /\ \E f \in {"absent", "partial", "complete"} \ {dl[i]} :
         dl' = [dl EXCEPT ![i] = f]
    /\ UNCHANGED <<orchLocals, batches, bstate, cidx, det,
                   failed_mods_tracker, downloaded_mods, chan, tx_dropped,
                   rx_done, sent, attempts>>
    /\ UNCHANGED <<dlVars, instVars, updVars, auxVars>>

\* steamcmd_process.wait() returns. While the process ran the readers parsed
\* some failure lines. Exit status success starts polling the detectors, a
\* non-zero status returns Err without polling them.
ToolExits(b) ==
    /\ bstate[b] = "running"
    /\ \E success \in BOOLEAN :
         bstate' = [bstate EXCEPT ![b] = IF success THEN "detect" ELSE "err"]
    /\ \E reported \in SUBSET Range(batches[b]) :
         /\ failed_mods_tracker' = failed_mods_tracker \cup reported
         /\ events' = IF WillRetry(retry_count) THEN events
                      ELSE Emit(reported, "failed")
    /\ UNCHANGED <<orchLocals, batches, cidx, det, downloaded_mods, dl, chan,
                   tx_dropped, rx_done, sent, attempts>>
    /\ UNCHANGED <<dlVars, instVars, consVars>>
    /\ UNCHANGED auxVars

(***************************************************************************)
(* wait_for_mod_download_static: the completion detector of one item.      *)
(***************************************************************************)
\* the folder exists and is non-empty
FolderPresent(i) == dl[i] # "absent"

\* should_send: the ID is not in failed_mods_tracker
ShouldSend(i, tracker) == i \notin tracker

\* folder found (fast path, notification, poll or final check of the watch
\* task, lines 779-808 and 855-972)
DetectFound(i) ==
    /\ det[i] = "pending" /\ bstate[BatchOf(i)] = "detect"
    /\ FolderPresent(i)
    /\ IF ShouldSend(i, failed_mods_tracker)
       THEN /\ CanSend
            /\ chan' = Push(Msg("ok", i))
            /\ sent' = Count("ok", i)
            /\ det' = [det EXCEPT ![i] = "some"]
       ELSE /\ det' = [det EXCEPT ![i] = "none"]
            /\ UNCHANGED <<chan, sent>>
    /\ UNCHANGED <<orchLocals, batches, bstate, cidx, failed_mods_tracker,
                   downloaded_mods, dl, tx_dropped, rx_done, attempts>>
    /\ UNCHANGED <<dlVars, instVars, updVars, auxVars>>

\* lines 979-1005: the outer timeout ends the wait before the watch task
\* has returned, and the folder is there at the check that follows; the
\* success is sent without a look at the failure set
DetectFoundAtTimeout(i) ==
    /\ det[i] = "pending" /\ bstate[BatchOf(i)] = "detect"
    /\ FolderPresent(i)
    /\ CanSend
    /\ chan' = Push(Msg("ok", i))
    /\ sent' = Count("ok", i)
    /\ det' = [det EXCEPT ![i] = "some"]
    /\ UNCHANGED <<orchLocals, batches, bstate, cidx, failed_mods_tracker,
                   downloaded_mods, dl, tx_dropped, rx_done, attempts>>
    /\ UNCHANGED <<dlVars, instVars, updVars, auxVars>>

\* the folder never appears: Ok(None) after the timeout (or Err when the
\* watcher cannot be created, which the result loop treats the same way)
DetectNotFound(i) ==
    /\ det[i] = "pending" /\ bstate[BatchOf(i)] = "detect"
    /\ ~FolderPresent(i)
    /\ det' = [det EXCEPT ![i] = "none"]
    /\ UNCHANGED <<orchLocals, batches, bstate, cidx, failed_mods_tracker,
                   downloaded_mods, dl, chan, tx_dropped, rx_done, sent,
                   attempts>>
    /\ UNCHANGED <<dlVars, instVars, updVars, auxVars>>

(***************************************************************************)
(* download_mods_batch: the result loop after join_all(download_promises). *)
(***************************************************************************)
\* verify_mod_download_complete: non-empty folder with an About folder
verify_mod_download_complete(i) == dl[i] = "complete"

\* the item is pushed to downloaded_mods (otherwise to failed_mods, with an
\* Err sent on the channel)
CountsAsDownloaded(i, tracker, result) ==
    /\ i \notin tracker
    /\ result = "some"
    /\ verify_mod_download_complete(i)

\* join_all returned: steamcmd_failed_mods is the tracker as it is now
BeginCollect(b) ==
    /\ bstate[b] = "detect"
    /\ \A i \in Range(batches[b]) : det[i] # "pending"
    /\ bstate' = [bstate EXCEPT ![b] = "collect"]
    /\ cidx' = [cidx EXCEPT ![b] = 1]
    /\ UNCHANGED <<orchLocals, batches, det, failed_mods_tracker,
                   downloaded_mods, dl, chan, tx_dropped, rx_done, sent,
                   attempts>>
    /\ UNCHANGED <<dlVars, instVars, updVars, auxVars>>

CollectItem(b) ==
    /\ bstate[b] = "collect"
    /\ LET k == cidx[b]
           i == batches[b][k]
           good == CountsAsDownloaded(i, failed_mods_tracker, det[i])
           got == IF good THEN downloaded_mods \cup {i} ELSE downloaded_mods
       IN /\ IF good
             THEN UNCHANGED <<chan, sent>>
             ELSE /\ CanSend
                  /\ chan' = Push(Msg("err", i))
                  /\ sent' = Count("err", i)
          /\ downloaded_mods' = got
          /\ cidx' = [cidx EXCEPT ![b] = k + 1]
          /\ bstate' = [bstate EXCEPT ![b] =
                          IF k < Len(batches[b]) THEN "collect"
                          ELSE IF got \cap Range(batches[b]) = {}
                               THEN "err" ELSE "ok"]
    /\ UNCHANGED <<orchLocals, batches, det, failed_mods_tracker, dl,
                   tx_dropped, rx_done, attempts>>
    /\ UNCHANGED <<dlVars, instVars, updVars, auxVars>>

(***************************************************************************)
(* download_mods_with_sizes: reconcile after the attempt.                  *)
(***************************************************************************)
AllBatchesDone == \A b \in 1..MaxInstances : bstate[b] \in {"none", "ok", "err"}

attemptVars == <<batches, bstate, cidx, det, failed_mods_tracker,
                 downloaded_mods>>

\* download_mods_single_attempt_static returned: its locals are gone
ResetAttempt ==
    /\ batches' = <<>>
    /\ bstate' = NoBatchState
    /\ cidx' = NoIdx
    /\ det' = NoDet
    /\ failed_mods_tracker' = {}
    /\ downloaded_mods' = {}

\* mutant: one failed batch fails the whole attempt
AttemptReturnsOk_NoFailedBatch(bst, downloaded) ==
    downloaded # {} /\ \A b \in 1..MaxInstances : bst[b] # "err"

\* download_mods_single_attempt_static: a failed batch is only logged; Err is
\* returned when all_downloaded_mods is empty
AttemptReturnsOk(bst, downloaded) == downloaded # {}

\* Ok((downloaded_mods, _)): at least one item was downloaded. When retries
\* are exhausted the remaining items get the "failed" state here.
AttemptOk ==
    /\ opc = "attempt" /\ AllBatchesDone
    /\ AttemptReturnsOk(bstate, downloaded_mods)
    /\ LET rem == FilterRemaining(remaining_mod_ids, downloaded_mods)
       IN /\ remaining_mod_ids' = rem
          /\ IF rem = <<>>
             THEN /\ opc' = "loop"                 \* break
                  /\ UNCHANGED <<retry_count, tidx, events>>
             ELSE IF RetriesLeft(retry_count)
                  THEN /\ opc' = "loop"
                       /\ retry_count' = NextRetryCount(retry_count)
                       /\ UNCHANGED <<tidx, events>>
                  ELSE /\ opc' = "final_ok"
                       /\ tidx' = 1
                       /\ events' = Emit(Range(rem), "failed")
                       /\ UNCHANGED retry_count
    /\ ResetAttempt
    /\ UNCHANGED <<mod_ids, has_sizes, mod_sizes, max_instances, dl, chan,
                   tx_dropped, rx_done, sent, attempts>>
    /\ UNCHANGED <<dlVars, instVars, consVars>>
    /\ UNCHANGED auxVars

\* Err(e): the attempt failed before its batches started, or nothing was
\* downloaded
AttemptErr ==
    /\ \/ opc = "attempt_err"
       \/ /\ opc = "attempt" /\ AllBatchesDone
          /\ ~AttemptReturnsOk(bstate, downloaded_mods)
    /\ retry_count' = NextRetryCount(retry_count)
    /\ IF NextRetryCount(retry_count) > MAX_RETRIES
       THEN opc' = "final_err" /\ tidx' = 1
       ELSE opc' = "loop" /\ UNCHANGED tidx
    /\ ResetAttempt
    /\ UNCHANGED <<mod_ids, has_sizes, mod_sizes, max_instances,
                   remaining_mod_ids, dl, chan, tx_dropped, rx_done, sent,
                   attempts>>
    /\ UNCHANGED <<dlVars, instVars, updVars, auxVars>>

\* tx_clone.send(Err("Download failed after 6 attempts")) for a remaining item
SendFinal ==
    /\ opc \in {"final_ok", "final_err"}
    /\ tidx <= Len(remaining_mod_ids)
    /\ CanSend
    /\ chan' = Push(Msg("final", remaining_mod_ids[tidx]))
    /\ sent' = Count("final", remaining_mod_ids[tidx])
    /\ tidx' = tidx + 1
    /\ UNCHANGED <<mod_ids, has_sizes, mod_sizes, max_instances,
                   remaining_mod_ids, retry_count, opc, attemptVars, dl,
                   tx_dropped, rx_done, attempts>>
    /\ UNCHANGED <<dlVars, instVars, updVars, auxVars>>

\* after the terminal failures: retry_count += 1 and back to the loop test
\* (Ok branch), or drop(tx_clone) and return (Err branch)
FinalDone ==
    /\ opc \in {"final_ok", "final_err"}
    /\ tidx > Len(remaining_mod_ids)
    /\ tidx' = 0
    /\ IF opc = "final_ok"
       THEN /\ retry_count' = NextRetryCount(retry_count)
            /\ opc' = "loop"
            /\ UNCHANGED tx_dropped
       ELSE /\ opc' = "closed"
            /\ tx_dropped' = TRUE
            /\ UNCHANGED retry_count
    /\ UNCHANGED <<mod_ids, has_sizes, mod_sizes, max_instances,
                   remaining_mod_ids, attemptVars, dl, chan, rx_done, sent,
                   attempts>>
    /\ UNCHANGED <<dlVars, instVars, updVars, auxVars>>

\* the loop ends: drop(tx_clone) closes the channel
ExitLoop ==
    /\ opc = "loop"
    /\ ~LoopCondition(remaining_mod_ids, retry_count)
    /\ opc' = "closed"
    /\ tx_dropped' = TRUE
    /\ UNCHANGED <<mod_ids, has_sizes, mod_sizes, max_instances,
                   remaining_mod_ids, retry_count, tidx, attemptVars, dl,
                   chan, rx_done, sent, attempts>>
    /\ UNCHANGED <<dlVars, instVars, updVars, auxVars>>

(***************************************************************************)
(* The consumer: while let Some(result) = mod_receiver.recv().await.       *)
(***************************************************************************)
Recv ==
    /\ ~rx_done
    /\ chan # <<>>
    /\ chan' = Tail(chan)
    /\ UNCHANGED <<orchLocals, attemptVars, dl, tx_dropped, rx_done, sent,
                   attempts>>
    /\ UNCHANGED <<dlVars, instVars, updVars, auxVars>>

RecvNone ==
    /\ ~rx_done
    /\ chan = <<>> /\ tx_dropped
    /\ rx_done' = TRUE
    /\ UNCHANGED <<orchLocals, attemptVars, dl, chan, tx_dropped, sent,
                   attempts>>
    /\ UNCHANGED <<dlVars, instVars, updVars, auxVars>>

OrchStep ==
    \/ StartAttempt
    \/ \E i \in Items : DetectFound(i)
    \/ \E i \in Items : DetectFoundAtTimeout(i)
    \/ \E i \in Items : DetectNotFound(i)
    \/ \E b \in 1..MaxInstances : BeginCollect(b)
    \/ \E b \in 1..MaxInstances : CollectItem(b)
    \/ AttemptOk
    \/ AttemptErr
    \/ SendFinal
    \/ FinalDone
    \/ ExitLoop

NextOrch ==
    \/ OrchStep
    \/ \E b \in 1..MaxInstances, i \in Items : ToolWritesFolder(b, i)
    \/ \E b \in 1..MaxInstances, i \in Items : ToolReportsFailure(b, i)
    \/ \E b \in 1..MaxInstances : ToolExits(b)
    \/ Recv
    \/ RecvNone

SpecOrch == InitOrch /\ [][NextOrch]_vars

\* every task of the runtime keeps running, every fetch-tool process exits
FairOrch ==
    /\ InitOrchNoSizes /\ [][NextOrch]_vars
    /\ WF_vars(OrchStep)
    /\ \A b \in 1..MaxInstances : WF_vars(ToolExits(b))
    /\ WF_vars(Recv)
    /\ WF_vars(RecvNone)

TypeOrch ==
    /\ retry_count \in 0..(MAX_RETRIES + 1)
    /\ Len(chan) <= MaxLag
    /\ \A i \in Items : attempts[i] \in 0..(MAX_RETRIES + 2)


(***************************************************************************)
(* Claims about the orchestrator.                                          *)
(***************************************************************************)

\* C1: when the output channel is closed, every requested ID has produced
\* exactly one message on it (one success or one terminal failure).
C1_ExactlyOneMessagePerItem ==
    tx_dropped => \A i \in Range(mod_ids) : sent[i].n = 1

C3_SuccessIsFinal ==
    [][\A i \in Items :
          sent[i].ok => (sent'[i] = sent[i] /\ attempts'[i] = attempts[i])]_vars

\* C4: every run closes its channel and the consumer that loops on receive
\* gets None; once the channel is closed no message is sent.
C4_ChannelCloses ==
    /\ <>(tx_dropped /\ rx_done)
    /\ [][tx_dropped => (sent' = sent /\ Len(chan') <= Len(chan))]_vars

C4_Witness ==
    /\ tx_dropped /\ rx_done
    /\ remaining_mod_ids # <<>>
    /\ \E i \in Items : sent[i].ok

(***************************************************************************)
(* download_mod (commands/download_handlers.rs): concurrent calls of the   *)
(* command on the shared Downloader. Each lock().await block is one step.  *)
(***************************************************************************)
\* dl.is_downloading(&mod_id)
is_downloading(active, id) == id \in active

\* dl.mark_downloading(mod_id): HashSet::insert
mark_downloading(active, id) == active \cup {id}

\* mutant: an exit path that leaves the ID in the set
mark_downloaded_Skipped(active, id) == active

\* dl.mark_downloaded(&mod_id): HashSet::remove
mark_downloaded(active, id) == active \ {id}

InitDl ==
    /\ active_downloads = {}
    /\ dpc = [c \in Calls |-> "idle"]
    /\ did = [c \in Calls |-> 0]
    /\ dres = [c \in Calls |-> "none"]
    /\ OrchOff /\ InstOff /\ UpdOff /\ AuxOff

\* the frontend invokes download_mod(mod_id)
DlInvoke(c) ==
    /\ dpc[c] = "idle"
    /\ \E id \in Items : did' = [did EXCEPT ![c] = id]
    /\ dpc' = [dpc EXCEPT ![c] = "check"]
    /\ dres' = [dres EXCEPT ![c] = "none"]
    /\ UNCHANGED active_downloads
    /\ UNCHANGED <<orchVars, instVars, updVars, auxVars>>

\* first lock block: return Err("Mod is already being downloaded") when the
\* ID is in the set
DlCheck(c) ==
    /\ dpc[c] = "check"
    /\ IF is_downloading(active_downloads, did[c])
       THEN /\ dpc' = [dpc EXCEPT ![c] = "returned"]
            /\ dres' = [dres EXCEPT ![c] = "already"]
       ELSE /\ dpc' = [dpc EXCEPT ![c] = "access"]
            /\ UNCHANGED dres
    /\ UNCHANGED <<active_downloads, did>>
    /\ UNCHANGED <<orchVars, instVars, updVars, auxVars>>

\* ensure_directory_access(..)?: an inaccessible mods folder returns Err
DlAccess(c) ==
    /\ dpc[c] = "access"
    /\ \E ok \in BOOLEAN :
         IF ok
         THEN /\ dpc' = [dpc EXCEPT ![c] = "mark"]
              /\ UNCHANGED dres
         ELSE /\ dpc' = [dpc EXCEPT ![c] = "returned"]
              /\ dres' = [dres EXCEPT ![c] = "access_denied"]
    /\ UNCHANGED <<active_downloads, did>>
    /\ UNCHANGED <<orchVars, instVars, updVars, auxVars>>

\* second lock block: mark_downloading
DlMark(c) ==
    /\ dpc[c] = "mark"
    /\ active_downloads' = mark_downloading(active_downloads, did[c])
    /\ dpc' = [dpc EXCEPT ![c] = "start"]
    /\ UNCHANGED <<did, dres>>
    /\ UNCHANGED <<orchVars, instVars, updVars, auxVars>>

\* third lock block: download_mods(&[mod_id]) starts the fetch and returns
\* the receiver; the Err arm of the match removes the ID and returns
DlStart(c) ==
    /\ dpc[c] = "start"
    /\ \E started \in BOOLEAN :
         IF started
         THEN /\ dpc' = [dpc EXCEPT ![c] = "fetching"]
              /\ UNCHANGED <<active_downloads, dres>>
         ELSE /\ active_downloads' = mark_downloaded(active_downloads, did[c])
              /\ dpc' = [dpc EXCEPT ![c] = "returned"]
              /\ dres' = [dres EXCEPT ![c] = "start_failed"]
    /\ UNCHANGED did
    /\ UNCHANGED <<orchVars, instVars, updVars, auxVars>>

\* mod_receiver.recv().await: the first message of the run, or None
DlRecv(c) ==
    /\ dpc[c] = "fetching"
    /\ \E m \in {"ok", "err", "closed"} :
         IF m = "ok"
         THEN /\ dpc' = [dpc EXCEPT ![c] = "install"]
              /\ UNCHANGED <<active_downloads, dres>>
         ELSE /\ active_downloads' = mark_downloaded(active_downloads, did[c])
              /\ dpc' = [dpc EXCEPT ![c] = "returned"]
              /\ dres' = [dres EXCEPT ![c] =
                            IF m = "err" THEN "download_failed"
                            ELSE "no_folder"]
    /\ UNCHANGED did
    /\ UNCHANGED <<orchVars, instVars, updVars, auxVars>>

\* update_mod(.., None, false, None, title, None), then mark_downloaded on
\* every outcome
DlInstall(c) ==
    /\ dpc[c] = "install"
    /\ \E r \in {"ok", "conflict", "update_failed"} :
         dres' = [dres EXCEPT ![c] = r]
    /\ active_downloads' = mark_downloaded(active_downloads, did[c])
    /\ dpc' = [dpc EXCEPT ![c] = "returned"]
    /\ UNCHANGED did
    /\ UNCHANGED <<orchVars, instVars, updVars, auxVars>>

\* the frontend has the result and may invoke the command again
DlReturn(c) ==
    /\ dpc[c] = "returned"
    /\ dpc' = [dpc EXCEPT ![c] = "idle"]
    /\ UNCHANGED <<active_downloads, did, dres>>
    /\ UNCHANGED <<orchVars, instVars, updVars, auxVars>>

NextDl ==
    \/ \E c \in Calls : DlInvoke(c)
    \/ \E c \in Calls : DlCheck(c)
    \/ \E c \in Calls : DlAccess(c)
    \/ \E c \in Calls : DlMark(c)
    \/ \E c \in Calls : DlStart(c)
    \/ \E c \in Calls : DlRecv(c)
    \/ \E c \in Calls : DlInstall(c)
    \/ \E c \in Calls : DlReturn(c)

SpecDl == InitDl /\ [][NextDl]_vars

\* a call between download_mods(..) and its last use of the fetched folder
Fetching(c) == dpc[c] \in {"fetching", "install"}

\* C5: no item ID is fetched by two download_mod calls at the same time.
C5_NoConcurrentFetchOfSameId ==
    \A c1, c2 \in Calls :
        (c1 # c2 /\ Fetching(c1) /\ Fetching(c2)) => did[c1] # did[c2]

(***************************************************************************)
(* Folders on disk. A mod folder is what the installer reads of it: the    *)
(* About folder, About/About.xml, the packageId in it and the content of   *)
(* About/PublishedFileId.txt. A directory maps the names of the folders    *)
(* that exist to their content.                                            *)
(***************************************************************************)
Folder(about, xml, pkg, pfid) ==
    [about |-> about, xml |-> xml, pkg |-> pkg, pfid |-> pfid]

Exists(dir, name) == name \in DOMAIN dir

\* mutant: the removal reports success and removes nothing
RemoveDir_Keeps(dir, name) == dir

\* fs::remove_dir_all
RemoveDir(dir, name) == [n \in (DOMAIN dir) \ {name} |-> dir[n]]

\* the folder at name is created or replaced
PutDir(dir, name, f) ==
    [n \in (DOMAIN dir) \cup {name} |-> IF n = name THEN f ELSE dir[n]]

\* is_mod_corrupted: a folder without About or without About/About.xml
is_mod_corrupted(dir, name) ==
    Exists(dir, name) /\ (~dir[name].about \/ ~dir[name].xml)

\* get_package_id: the packageId of About/About.xml, None without the file
get_package_id(f) == IF f.about /\ f.xml THEN f.pkg ELSE NoId

\* str::trim on the file contents of the model: an item ID, or an item ID
\* followed by a newline
trim(c) == IF c = "111\n" THEN "111" ELSE c

\* query_mod_id: the trimmed content of About/PublishedFileId.txt
query_mod_id(f) == IF f.about THEN trim(f.pfid) ELSE NoId

\* verify_mod_complete: the folder exists, is not empty, has an About folder
verify_mod_complete(dir, name) == Exists(dir, name) /\ dir[name].about

\* find_existing_mod_folder returns the first folder read_dir lists whose
\* PublishedFileId is mod_id; read_dir lists in no defined order
FoldersWithId(dir, mod_id) ==
    {n \in DOMAIN dir : query_mod_id(dir[n]) = mod_id}

(***************************************************************************)
(* update_mod: the destination folder name.                                *)
(***************************************************************************)
\* mod_title.unwrap_or(mod_id), for titles sanitize_folder_name keeps as
\* they are
DerivedName(title, mod_id) == <<IF title = NoId THEN mod_id ELSE title>>

\* format!("{}_{}", base_name, mod_id)
FallbackName(base_name, mod_id) == base_name \o <<"_", mod_id>>

\* format!("{} ({})", folder_name, mod_id)
ParenName(folder_name, mod_id) == folder_name \o <<" (", mod_id, ")">>

\* the loops of update_mod that append "_": stop at a name that does not
\* exist, (for differing package identifiers only, src_id given) at a
\* folder with the source's package identifier, or past the safety limit
\* with the fallback name, which leaves proposed_path at the last name tried
\* mutant: the safety limit is never reached
PastSafetyLimit_Never(folder_name, base_name) == FALSE

\* folder_name.len() > base_name.len() + 50
PastSafetyLimit(folder_name, base_name) ==
    Len(folder_name) > Len(base_name) + SAFETY_LIMIT

\* mutant: the loop stops at any folder that has a package identifier
SamePackage_Any(src_id, f) == get_package_id(f) # NoId

\* lines 142-147, in the loop of differing package identifiers only: the
\* folder tried has the source's package identifier
SamePackage(src_id, f) == src_id # NoId /\ get_package_id(f) = src_id

RECURSIVE UnderscoreLoop(_, _, _, _, _)
UnderscoreLoop(dir, base_name, folder_name, src_id, mod_id) ==
    LET next == Append(folder_name, "_")
    IN IF ~Exists(dir, next)
       THEN [folder_name |-> next, proposed_path |-> next]
       ELSE IF SamePackage(src_id, dir[next])
       THEN [folder_name |-> next, proposed_path |-> next]
       ELSE IF PastSafetyLimit(next, base_name)
       THEN [folder_name |-> FallbackName(base_name, mod_id),
             proposed_path |-> next]
       ELSE UnderscoreLoop(dir, base_name, next, src_id, mod_id)

\* the passes UnderscoreLoop makes through the loop body
RECURSIVE UnderscoreIters(_, _, _, _)
UnderscoreIters(dir, base_name, folder_name, src_id) ==
    LET next == Append(folder_name, "_")
    IN IF \/ ~Exists(dir, next)
          \/ src_id # NoId /\ get_package_id(dir[next]) = src_id
          \/ PastSafetyLimit(next, base_name)
       THEN 1
       ELSE 1 + UnderscoreIters(dir, base_name, next, src_id)

\* mutant: a rename decision is treated like an overwrite decision
KeepsCorruptedName_Always(decision) == decision # "none"

\* Some(true): continue with the same folder name
KeepsCorruptedName(decision) == decision = "overwrite"

\* the match on (source_package_id, existing_package_id) for an existing,
\* not corrupted proposed_path
PackageCheck(dir, s, src_pkg, mod_id) ==
    LET existing == dir[s.proposed_path]
        existing_pkg == get_package_id(existing)
    IN IF src_pkg # NoId /\ existing_pkg # NoId
       THEN IF src_pkg # existing_pkg
            THEN UnderscoreLoop(dir, s.folder_name, s.folder_name, src_pkg,
                                mod_id).folder_name
            ELSE s.folder_name
       ELSE IF src_pkg # NoId \/ existing_pkg # NoId
       THEN UnderscoreLoop(dir, s.folder_name, s.folder_name, NoId,
                           mod_id).folder_name
       ELSE IF query_mod_id(existing) # NoId /\ query_mod_id(existing) # mod_id
       THEN ParenName(s.folder_name, mod_id)
       ELSE s.folder_name

\* lines 90-121 for an existing folder and a decision: the rename loop runs
\* for a corrupted folder that is not to be overwritten
RenameLoopRuns(dir, name, decision) ==
    is_mod_corrupted(dir, name) /\ ~KeepsCorruptedName(decision)

AfterCorruptedGate(dir, name, mod_id, decision) ==
    IF RenameLoopRuns(dir, name, decision)
    THEN UnderscoreLoop(dir, name, name, NoId, mod_id)
    ELSE [folder_name |-> name, proposed_path |-> name]

\* the None arm of find_existing_mod_folder: the name from the title
ResolveDerived(dir, name, src_pkg, mod_id, decision) ==
    IF ~Exists(dir, name)
    THEN [err |-> "none", folder_name |-> name]
    ELSE IF is_mod_corrupted(dir, name) /\ decision = "none"
    THEN [err |-> "conflict", folder_name |-> name]
    ELSE LET s == AfterCorruptedGate(dir, name, mod_id, decision)
         IN [err |-> "none",
             folder_name |->
                 IF Exists(dir, s.proposed_path)
                    /\ ~is_mod_corrupted(dir, s.proposed_path)
                 THEN PackageCheck(dir, s, src_pkg, mod_id)
                 ELSE s.folder_name]

\* source_package_id: get_package_id of the downloaded folder, None when the
\* folder does not exist
SourcePackageId(dls, mod_id) ==
    IF Exists(dls, mod_id) THEN get_package_id(dls[mod_id]) ELSE NoId

(***************************************************************************)
(* The watcher's ignore registry and the cancellation flag (services.rs).  *)
(***************************************************************************)
\* ignore_path_in_watcher(path) / WatcherIgnoreGuard::new(path)
ignore_path(ign, path) == ign \cup {path}

\* WatcherIgnoreGuard::unignore, and the guard going out of scope
unignore_path(ign, path) == ign \ {path}

\* is_update_cancelled()
is_update_cancelled == cancelled

\* mutant: the guard is not held while the copy runs
HoldsGuard_NotWhileCopying(pc) ==
    pc \in {"remove", "source", "copy", "verify", "marker",
            "rremove", "rcopy", "rdelete"}

\* the positions of update_mod and restore_backup inside the scope of _guard
HoldsGuard(pc) ==
    pc \in {"remove", "source", "copy", "copying", "verify", "marker",
            "rremove", "rcopy", "rcopying", "rdelete"}

\* the call of task t returns r; leaving the scope of _guard releases the path
Return(t, r) ==
    /\ tres' = [tres EXCEPT ![t] = r]
    /\ tpc' = [tpc EXCEPT ![t] = "done"]
    /\ ignored' = IF HoldsGuard(tpc[t]) THEN unignore_path(ignored, tdest[t])
                  ELSE ignored

\* task t moves on inside the call
Goto(t, pc) ==
    /\ tpc' = [tpc EXCEPT ![t] = pc]
    /\ UNCHANGED <<tres, ignored>>

(***************************************************************************)
(* Copies and removals that fail part-way.                                 *)
(***************************************************************************)
EmptyFolder == Folder(FALSE, FALSE, NoId, NoId)

\* mutant: the copy reports success and copies nothing
CopyOver_Nothing(old, src) == old

\* copy_dir_all_sync over a destination that may exist: entries of the
\* source replace entries of the same name, other entries stay
CopyOver(old, src) ==
    Folder(old.about \/ src.about,
           old.xml \/ src.xml,
           IF src.xml THEN src.pkg ELSE old.pkg,
           IF src.about /\ src.pfid # NoId THEN src.pfid ELSE old.pfid)

\* what a copy that stopped part-way has copied of src: nothing, or the
\* About folder without its files
PartialCopies(src) ==
    {EmptyFolder} \cup (IF src.about THEN {Folder(TRUE, FALSE, NoId, NoId)}
                        ELSE {})

\* copy_dir_all_sync starts with create_dir_all(dst)
CreateDst(dir, name) ==
    IF Exists(dir, name) THEN dir ELSE PutDir(dir, name, EmptyFolder)

\* what fs::remove_dir_all leaves of a folder when it fails: the folder as
\* it was, or the folder with part of its entries gone
PartlyRemoved(f) == {f, EmptyFolder}

(***************************************************************************)
(* ModUpdater::update_mod (core/mod_manager.rs), one call per task.        *)
(***************************************************************************)
\* the command is invoked with the arguments of the task
UpdCall(t) ==
    /\ tpc[t] = "idle" /\ targ[t].kind = "update"
    /\ Goto(t, "resolve")
    /\ UNCHANGED <<mods, backups, downloads, cancelled, targ, tdest, tvia,
                   tattempt>>
    /\ UNCHANGED <<orchVars, dlVars, updVars, auxVars>>

\* mutant: a folder carrying the item ID wins over the supplied name
NameSource_ReuseFirst(existing, found) ==
    IF found # {} THEN "reuse"
    ELSE IF existing # NoName THEN "supplied" ELSE "derived"

\* lines 58-72: if let Some(name) = existing_folder_name, else the match on
\* find_existing_mod_folder
NameSource(existing, found) ==
    IF existing # NoName THEN "supplied"
    ELSE IF found # {} THEN "reuse" ELSE "derived"

\* lines 58-216: folder_name from existing_folder_name, else from the folder
\* carrying the item ID, else from the title
UpdResolve(t) ==
    /\ tpc[t] = "resolve"
    /\ LET a == targ[t]
           found == FoldersWithId(mods, a.mod_id)
       IN IF NameSource(a.existing, found) = "supplied"
          THEN /\ tdest' = [tdest EXCEPT ![t] = a.existing]
               /\ tvia' = [tvia EXCEPT ![t] = "supplied"]
               /\ Goto(t, "backup")
          ELSE \E readable \in BOOLEAN :
                 IF ~readable
                 THEN /\ Return(t, "find_failed")
                      /\ UNCHANGED <<tdest, tvia>>
                 ELSE IF NameSource(a.existing, found) = "reuse"
                 THEN /\ \E n \in found : tdest' = [tdest EXCEPT ![t] = n]
                      /\ tvia' = [tvia EXCEPT ![t] = "reuse"]
                      /\ Goto(t, "backup")
                 ELSE LET r == ResolveDerived(mods,
                                   DerivedName(a.title, a.mod_id),
                                   SourcePackageId(downloads, a.mod_id),
                                   a.mod_id, a.decision)
                      IN /\ tdest' = [tdest EXCEPT ![t] = r.folder_name]
                         /\ tvia' = [tvia EXCEPT ![t] = "derived"]
                         /\ IF r.err = "conflict"
                            THEN Return(t, "conflict")
                            ELSE Goto(t, "backup")
    /\ UNCHANGED <<mods, backups, downloads, cancelled, targ, tattempt>>
    /\ UNCHANGED <<orchVars, dlVars, updVars, auxVars>>

\* mutant: a backup that is already there is kept as it is
BackupStep_KeepStale(b, name, f) ==
    IF Exists(b, name) THEN b
    ELSE PutDir(b, name, CopyOver(EmptyFolder, f))

\* lines 233-245: the old backup of the name is removed, then the tree f is
\* copied to the fresh backup path
BackupStep(b, name, f) ==
    PutDir(RemoveDir(b, name), name, CopyOver(EmptyFolder, f))

\* lines 218-247: create_dir_all(mods_path), then the backup when requested
UpdBackup(t) ==
    /\ tpc[t] = "backup"
    /\ \E io \in {"ok", "fail", "fail_copy"} :
         IF io = "fail"
         THEN Return(t, "io_error") /\ UNCHANGED backups
         ELSE IF ~targ[t].backup
         THEN io = "ok" /\ Goto(t, "register") /\ UNCHANGED backups
         ELSE IF is_update_cancelled
         THEN io = "ok" /\ Return(t, "cancelled") /\ UNCHANGED backups
         ELSE IF ~Exists(mods, tdest[t])
         THEN /\ io = "ok"
              /\ backups' = RemoveDir(backups, tdest[t])
              /\ Goto(t, "register")
         ELSE IF io = "ok"
         THEN /\ backups' = BackupStep(backups, tdest[t], mods[tdest[t]])
              /\ Goto(t, "register")
         ELSE /\ \E p \in PartialCopies(mods[tdest[t]]) :
                    backups' = BackupStep(backups, tdest[t], p)
              /\ Return(t, "io_error")
    /\ UNCHANGED <<mods, downloads, cancelled, targ, tdest, tvia, tattempt>>
    /\ UNCHANGED <<orchVars, dlVars, updVars, auxVars>>

\* lines 249-254: the destination is registered and the guard created
UpdRegister(t) ==
    /\ tpc[t] = "register"
    /\ ignored' = ignore_path(ignored, tdest[t])
    /\ tpc' = [tpc EXCEPT ![t] = "remove"]
    /\ UNCHANGED <<mods, backups, downloads, cancelled, targ, tdest, tvia,
                   tres, tattempt>>
    /\ UNCHANGED <<orchVars, dlVars, updVars, auxVars>>

\* mutant: the removal starts without a look at the flag
CancelledBeforeDelete_Unchecked(attempt, flag) == FALSE

\* lines 258-262: the flag is read once, before remove_dir_with_retry
CancelledBeforeDelete(attempt, flag) == attempt = 0 /\ flag

\* mutant: a failed attempt is always followed by another
RetryRemoval_Always(attempt, max_retries) == TRUE

\* remove_dir_with_retry, "if attempt < max_retries": after a failed attempt
\* (counted from 1) the function sleeps delay_ms and tries again
RetryRemoval(attempt, max_retries) == attempt < max_retries

\* lines 256-266: an existing destination is removed, one attempt of
\* remove_dir_with_retry per step
UpdRemove(t) ==
    /\ tpc[t] = "remove"
    /\ LET d == tdest[t]
       IN IF ~Exists(mods, d)
          THEN /\ Goto(t, "source")
               /\ tattempt' = [tattempt EXCEPT ![t] = 0]
               /\ UNCHANGED mods
          ELSE IF CancelledBeforeDelete(tattempt[t], is_update_cancelled)
          THEN /\ Return(t, "cancelled")
               /\ UNCHANGED <<mods, tattempt>>
          ELSE \E ok \in BOOLEAN :
                 IF ok
                 THEN /\ mods' = RemoveDir(mods, d)
                      /\ Goto(t, "source")
                      /\ tattempt' = [tattempt EXCEPT ![t] = 0]
                 ELSE /\ \E f \in PartlyRemoved(mods[d]) :
                            mods' = PutDir(mods, d, f)
                      /\ IF RetryRemoval(tattempt[t] + 1, REMOVE_RETRIES)
                         THEN /\ tattempt' = [tattempt EXCEPT ![t] = @ + 1]
                              /\ Goto(t, "remove")
                         ELSE /\ tattempt' = [tattempt EXCEPT ![t] = 0]
                              /\ Return(t, "remove_failed")
    /\ UNCHANGED <<backups, downloads, cancelled, targ, tdest, tvia>>
    /\ UNCHANGED <<orchVars, dlVars, updVars, auxVars>>

\* lines 268-290: the source exists and is complete, the run is not cancelled
UpdSource(t) ==
    /\ tpc[t] = "source"
    /\ IF ~Exists(downloads, targ[t].mod_id)
       THEN Return(t, "source_missing")
       ELSE IF ~verify_mod_complete(downloads, targ[t].mod_id)
       THEN Return(t, "source_incomplete")
       ELSE IF is_update_cancelled
       THEN Return(t, "cancelled")
       ELSE Goto(t, "copy")
    /\ UNCHANGED <<mods, backups, downloads, cancelled, targ, tdest, tvia,
                   tattempt>>
    /\ UNCHANGED <<orchVars, dlVars, updVars, auxVars>>

\* line 293: copy_dir_all_async starts by creating the destination
UpdCopyBegin(t) ==
    /\ tpc[t] = "copy"
    /\ mods' = CreateDst(mods, tdest[t])
    /\ Goto(t, "copying")
    /\ UNCHANGED <<backups, downloads, cancelled, targ, tdest, tvia, tattempt>>
    /\ UNCHANGED <<orchVars, dlVars, updVars, auxVars>>

\* lines 293-294: the copy ends, complete or part-way with an error
UpdCopyEnd(t) ==
    /\ tpc[t] = "copying"
    /\ LET d == tdest[t]
           src == downloads[targ[t].mod_id]
           old == CreateDst(mods, d)[d]
       IN \E ok \in BOOLEAN :
            IF ok
            THEN /\ mods' = PutDir(mods, d, CopyOver(old, src))
                 /\ Goto(t, "verify")
            ELSE /\ \E p \in PartialCopies(src) :
                       mods' = PutDir(mods, d, CopyOver(old, p))
                 /\ Return(t, "copy_failed")
    /\ UNCHANGED <<backups, downloads, cancelled, targ, tdest, tvia, tattempt>>
    /\ UNCHANGED <<orchVars, dlVars, updVars, auxVars>>

\* lines 296-299: verify_mod_complete on the copy
UpdVerify(t) ==
    /\ tpc[t] = "verify"
    /\ IF verify_mod_complete(mods, tdest[t])
       THEN Goto(t, "marker")
       ELSE Return(t, "copy_incomplete")
    /\ UNCHANGED <<mods, backups, downloads, cancelled, targ, tdest, tvia,
                   tattempt>>
    /\ UNCHANGED <<orchVars, dlVars, updVars, auxVars>>

\* ensure_published_file_id: About is created when missing, the file is
\* written unless it holds the item ID already
\* mutant: the marker file is reported written and is not
WithPublishedFileId_Skip(dir, name, mod_id) == dir

WithPublishedFileId(dir, name, mod_id) ==
    IF Exists(dir, name)
    THEN PutDir(dir, name, [dir[name] EXCEPT !.about = TRUE, !.pfid = mod_id])
    ELSE PutDir(dir, name, Folder(TRUE, FALSE, NoId, mod_id))

\* lines 301-311: the marker file, then _guard.unignore() and Ok
UpdMarker(t) ==
    /\ tpc[t] = "marker"
    /\ LET d == tdest[t]
           id == targ[t].mod_id
       IN IF Exists(mods, d) /\ query_mod_id(mods[d]) = id
          THEN Return(t, "ok") /\ UNCHANGED mods
          ELSE \E ok \in BOOLEAN :
                 IF ok
                 THEN /\ mods' = WithPublishedFileId(mods, d, id)
                      /\ Return(t, "ok")
                 ELSE /\ Return(t, "marker_failed")
                      /\ UNCHANGED mods
    /\ UNCHANGED <<backups, downloads, cancelled, targ, tdest, tvia, tattempt>>
    /\ UNCHANGED <<orchVars, dlVars, updVars, auxVars>>

(***************************************************************************)
(* restore_backup (commands/backup_handlers.rs), one call per task. The    *)
(* mod path is mods/<existing>, the backup path backups/<existing>.        *)
(***************************************************************************)
RstCall(t) ==
    /\ tpc[t] = "idle" /\ targ[t].kind = "restore"
    /\ Goto(t, "rcheck")
    /\ UNCHANGED <<mods, backups, downloads, cancelled, targ, tdest, tvia,
                   tattempt>>
    /\ UNCHANGED <<orchVars, dlVars, updVars, auxVars>>

\* a path is the sequence of its components; the mods folder and the
\* backup directory the installer is given
ModsPath == <<"mods">>
BackupsPath == <<"backups">>

\* mods_path.join(folder_name)
ModPath(name) == Append(ModsPath, name)

\* Path::starts_with: base is a prefix of path, component by component
starts_with(path, base) ==
    Len(base) <= Len(path) /\ SubSeq(path, 1, Len(base)) = base

\* mutant: the two directories are never found to overlap
PathsOverlap_Never(mod_path, backup_directory) == FALSE

\* lines 164-168: the backup directory is the mod path, above it or below it
PathsOverlap(mod_path, backup_directory) ==
    starts_with(mod_path, backup_directory)
        \/ starts_with(backup_directory, mod_path)

\* lines 155-194: directory access, the checks of the two paths, then
\* "Backup not found"; the model holds backups only in BackupsPath
RstCheck(t) ==
    /\ tpc[t] = "rcheck"
    /\ tdest' = [tdest EXCEPT ![t] = targ[t].existing]
    /\ tvia' = [tvia EXCEPT ![t] = "supplied"]
    /\ LET mod_path == ModPath(targ[t].existing)
           backup_directory == targ[t].backup_directory
           backup_path == Append(backup_directory, targ[t].existing)
       IN \E access \in BOOLEAN :
            IF ~access
            THEN Return(t, "access_denied")
            ELSE IF PathsOverlap(mod_path, backup_directory)
            THEN Return(t, "paths_overlap")
            ELSE IF ~starts_with(backup_path, backup_directory)
            THEN Return(t, "invalid_backup_path")
            ELSE IF backup_path = mod_path
            THEN Return(t, "same_path")
            ELSE IF ~Exists(backups, targ[t].existing)
            THEN Return(t, "no_backup")
            ELSE Goto(t, "rregister")
    /\ UNCHANGED <<mods, backups, downloads, cancelled, targ, tattempt>>
    /\ UNCHANGED <<orchVars, dlVars, updVars, auxVars>>

\* lines 196-199
RstRegister(t) ==
    /\ tpc[t] = "rregister"
    /\ ignored' = ignore_path(ignored, tdest[t])
    /\ tpc' = [tpc EXCEPT ![t] = "rremove"]
    /\ UNCHANGED <<mods, backups, downloads, cancelled, targ, tdest, tvia,
                   tres, tattempt>>
    /\ UNCHANGED <<orchVars, dlVars, updVars, auxVars>>

\* lines 201-210: the current mod folder is removed
RstRemove(t) ==
    /\ tpc[t] = "rremove"
    /\ LET d == tdest[t]
       IN IF ~Exists(mods, d)
          THEN Goto(t, "rcopy") /\ UNCHANGED mods
          ELSE \E ok \in BOOLEAN :
                 IF ok
                 THEN mods' = RemoveDir(mods, d) /\ Goto(t, "rcopy")
                 ELSE /\ \E f \in PartlyRemoved(mods[d]) :
                            mods' = PutDir(mods, d, f)
                      /\ Return(t, "remove_failed")
    /\ UNCHANGED <<backups, downloads, cancelled, targ, tdest, tvia, tattempt>>
    /\ UNCHANGED <<orchVars, dlVars, updVars, auxVars>>

\* line 216: copy_dir_all_async starts by creating the destination
RstCopyBegin(t) ==
    /\ tpc[t] = "rcopy"
    /\ mods' = CreateDst(mods, tdest[t])
    /\ Goto(t, "rcopying")
    /\ UNCHANGED <<backups, downloads, cancelled, targ, tdest, tvia, tattempt>>
    /\ UNCHANGED <<orchVars, dlVars, updVars, auxVars>>

\* lines 216-217: the copy of the backup ends; a backup that is gone fails
\* the read of the source
RstCopyEnd(t) ==
    /\ tpc[t] = "rcopying"
    /\ LET d == tdest[t]
           old == CreateDst(mods, d)[d]
       IN IF ~Exists(backups, d)
          THEN /\ mods' = PutDir(mods, d, old)
               /\ Return(t, "copy_failed")
          ELSE \E ok \in BOOLEAN :
                 IF ok
                 THEN /\ mods' = PutDir(mods, d, CopyOver(old, backups[d]))
                      /\ Goto(t, "rdelete")
                 ELSE /\ \E p \in PartialCopies(backups[d]) :
                            mods' = PutDir(mods, d, CopyOver(old, p))
                      /\ Return(t, "copy_failed")
    /\ UNCHANGED <<backups, downloads, cancelled, targ, tdest, tvia, tattempt>>
    /\ UNCHANGED <<orchVars, dlVars, updVars, auxVars>>

\* lines 219-235: the backup is deleted, then _guard.unignore() and Ok
RstDelete(t) ==
    /\ tpc[t] = "rdelete"
    /\ \E ok \in BOOLEAN :
         IF ok /\ Exists(backups, tdest[t])
         THEN /\ backups' = RemoveDir(backups, tdest[t])
              /\ Return(t, "ok")
         ELSE /\ Return(t, "delete_failed")
              /\ UNCHANGED backups
    /\ UNCHANGED <<mods, downloads, cancelled, targ, tdest, tvia, tattempt>>
    /\ UNCHANGED <<orchVars, dlVars, updVars, auxVars>>

(***************************************************************************)
(* The cancellation commands (commands/update_handlers.rs).                *)
(***************************************************************************)
\* cancel_update_mods: cancel_update()
CancelUpdate ==
    /\ ~cancelled
    /\ cancelled' = TRUE
    /\ UNCHANGED <<mods, backups, downloads, ignored, targ, tpc, tdest, tvia,
                   tres, tattempt>>
    /\ UNCHANGED <<orchVars, dlVars, updVars, auxVars>>

\* reset_update_cancel_flag_command, and the reset at the start of update_mods
ResetCancel ==
    /\ cancelled
    /\ cancelled' = FALSE
    /\ UNCHANGED <<mods, backups, downloads, ignored, targ, tpc, tdest, tvia,
                   tres, tattempt>>
    /\ UNCHANGED <<orchVars, dlVars, updVars, auxVars>>

(***************************************************************************)
(* The installer's specifications.                                         *)
(*   SpecInst  two concurrent calls of update_mod / restore_backup on one  *)
(*             destination, with the cancellation commands.                *)
(*   SpecName  one call of update_mod on a mods folder that holds          *)
(*             colliding folders, underscore chains up to and past the     *)
(*             safety limit, and the fallback names.                       *)
(***************************************************************************)
OwnId == "111"         \* the item being installed
OtherId == "222"       \* another item
Alpha == <<"Alpha">>   \* the folder name the title gives
Beta == <<"Beta">>     \* a folder name unrelated to the title

Valid(pkg, pfid) == Folder(TRUE, TRUE, pkg, pfid)

\* a folder of another mod
Foreign == Valid("pkg.b", OtherId)

Dir1(name, f) == [n \in {name} |-> f]

\* the directories that hold nothing, or at name one folder of fs
OptDirs(name, fs) == {EmptyDir} \cup {Dir1(name, f) : f \in fs}

UpdateArgs(existing, backup, decision) ==
    [kind |-> "update", mod_id |-> OwnId, existing |-> existing,
     title |-> "Alpha", backup |-> backup, decision |-> decision]

\* the same call with mod_title = None
Untitled(a) == [a EXCEPT !.title = NoId]

\* restore_backup(app, mod_path, backup_directory)
RestoreFrom(name, backup_directory) ==
    [kind |-> "restore", mod_id |-> NoId, existing |-> name,
     title |-> NoId, backup |-> FALSE, decision |-> "none",
     backup_directory |-> backup_directory]

RestoreArgs(name) == RestoreFrom(name, BackupsPath)

TaskStart(active) ==
    /\ tpc = [t \in Tasks |-> IF t \in active THEN "idle" ELSE "off"]
    /\ tdest = [t \in Tasks |-> NoName]
    /\ tvia = [t \in Tasks |-> "none"]
    /\ tres = [t \in Tasks |-> "none"]
    /\ tattempt = [t \in Tasks |-> 0]
    /\ ignored = {}
    /\ cancelled = FALSE

InitInst ==
    /\ mods \in OptDirs(Alpha, {Valid("pkg.a", OwnId), EmptyFolder})
    /\ backups \in OptDirs(Alpha, {Valid("pkg.a", OwnId)})
    /\ downloads \in OptDirs(OwnId, {Valid("pkg.a", NoId), EmptyFolder})
    /\ targ \in [Tasks -> {UpdateArgs(e, b, "none") :
                               e \in {NoName, Alpha}, b \in BOOLEAN}
                          \cup {RestoreArgs(Alpha)}]
    /\ TaskStart(Tasks)
    /\ OrchOff /\ DlOff /\ UpdOff /\ AuxOff

NextInst ==
    \/ \E t \in Tasks : UpdCall(t)
    \/ \E t \in Tasks : UpdResolve(t)
    \/ \E t \in Tasks : UpdBackup(t)
    \/ \E t \in Tasks : UpdRegister(t)
    \/ \E t \in Tasks : UpdRemove(t)
    \/ \E t \in Tasks : UpdSource(t)
    \/ \E t \in Tasks : UpdCopyBegin(t)
    \/ \E t \in Tasks : UpdCopyEnd(t)
    \/ \E t \in Tasks : UpdVerify(t)
    \/ \E t \in Tasks : UpdMarker(t)
    \/ \E t \in Tasks : RstCall(t)
    \/ \E t \in Tasks : RstCheck(t)
    \/ \E t \in Tasks : RstRegister(t)
    \/ \E t \in Tasks : RstRemove(t)
    \/ \E t \in Tasks : RstCopyBegin(t)
    \/ \E t \in Tasks : RstCopyEnd(t)
    \/ \E t \in Tasks : RstDelete(t)
    \/ CancelUpdate
    \/ ResetCancel

SpecInst == InitInst /\ [][NextInst]_vars

(***************************************************************************)
(* Claims about the ignore registry.                                       *)
(***************************************************************************)
\* task t takes a step
StepOf(t) == tpc'[t] # tpc[t] \/ tattempt'[t] # tattempt[t]

\* the call of task t has started and has not returned
InProgress(t) == tpc[t] \notin {"off", "idle", "done"}

\* C6: every deletion and every write an install or restore task makes under
\* its destination path happens while the path is in IgnoredPaths: it is
\* added before the first of them and stays as long as a task is at work
\* under the path.
C6_IgnoredWhileMutating ==
    [][\A t \in Tasks :
          (StepOf(t) /\ mods' # mods) => tdest[t] \in ignored]_vars

\* C7: IgnoredPaths holds only destinations of calls that are in progress:
\* the registration of a call is gone when the call has returned, on
\* success, on every error and on cancellation, and with no call in
\* progress the set is empty.
C7_NoLeakedIgnore ==
    \A p \in ignored : \E t \in Tasks : InProgress(t) /\ tdest[t] = p

C7_Witness ==
    /\ ignored = {}
    /\ \E t, u \in Tasks :
         /\ tpc[t] = "done" /\ tpc[u] = "done"
         /\ tres[t] \in {"copy_failed", "remove_failed", "cancelled",
                         "source_missing", "marker_failed"}
         /\ tvia[t] # "none"
         /\ tres[u] = "ok"

(***************************************************************************)
(* SpecName: the mods folders one call of update_mod resolves against.     *)
(***************************************************************************)
\* name followed by k underscores
Underscores(name, k) == name \o [i \in 1..k |-> "_"]

\* the folders name_, name__, ... of n underscores: copies of f, the last
\* one being last
Chain(name, n, f, last) ==
    [m \in {Underscores(name, k) : k \in 1..n} |->
        IF m = Underscores(name, n) THEN last ELSE f]

ChainLens == (0..ShortChain) \cup (SAFETY_LIMIT..(SAFETY_LIMIT + LongChainExtra))

\* folders at the name of the title that do not carry the item ID: corrupted
\* ones, and valid ones with every package identifier
CollidingFolders ==
    {EmptyFolder, Folder(TRUE, FALSE, NoId, NoId),
     Folder(TRUE, FALSE, NoId, OtherId)}
    \cup {Valid(p, i) : p \in {NoId, "pkg.a", "pkg.b"}, i \in {NoId, OtherId}}

\* folders that carry the item ID
OwnFolders == {Valid("pkg.a", OwnId), Folder(TRUE, FALSE, NoId, OwnId)}

\* the title's name collides (or not), with an underscore chain and the
\* fallback names present or absent; no folder carries the item ID
DerivedScenarios ==
    {base @@ chain @@ fb @@ paren :
        base \in OptDirs(Alpha, CollidingFolders),
        chain \in {Chain(Alpha, n, Foreign, last) :
                      n \in ChainLens,
                      last \in {Foreign, Valid("pkg.a", NoId)}},
        fb \in OptDirs(FallbackName(Alpha, OwnId), {Foreign}),
        paren \in OptDirs(ParenName(Alpha, OwnId), {Foreign})}

\* a folder may carry the item ID, at the title's name or elsewhere
ReuseScenarios ==
    {base @@ other :
        base \in OptDirs(Alpha, CollidingFolders \cup OwnFolders),
        other \in OptDirs(Beta, OwnFolders)}

\* complete downloads: with About.xml, with and without a package
\* identifier, with an About folder that holds no About.xml, and with a
\* PublishedFileId.txt that holds the item ID, the item ID and a newline,
\* or another ID
SourceFolders ==
    {Valid(p, NoId) : p \in {NoId, "pkg.a"}}
        \cup {Folder(TRUE, FALSE, NoId, NoId)}
        \cup {Valid("pkg.a", c) : c \in {OwnId, "111\n", OtherId}}

InitName ==
    /\ \/ /\ mods \in DerivedScenarios
          /\ \E d \in {"none", "overwrite", "rename"} :
               targ = [t \in Tasks |->
                          IF t = 1 THEN UpdateArgs(NoName, FALSE, d)
                          ELSE NoArgs]
       \/ /\ mods \in ReuseScenarios
          /\ \E d \in {"none", "overwrite", "rename"}, e \in {NoName, Alpha} :
               \E a \in {UpdateArgs(e, FALSE, d),
                         Untitled(UpdateArgs(e, FALSE, d))} :
                   targ = [t \in Tasks |-> IF t = 1 THEN a ELSE NoArgs]
    /\ backups = EmptyDir
    /\ downloads \in {Dir1(OwnId, f) : f \in SourceFolders}
    /\ TaskStart({1})
    /\ OrchOff /\ DlOff /\ UpdOff /\ AuxOff

NextName ==
    \/ \E t \in Tasks : UpdCall(t)
    \/ \E t \in Tasks : UpdResolve(t)
    \/ \E t \in Tasks : UpdBackup(t)
    \/ \E t \in Tasks : UpdRegister(t)
    \/ \E t \in Tasks : UpdRemove(t)
    \/ \E t \in Tasks : UpdSource(t)
    \/ \E t \in Tasks : UpdCopyBegin(t)
    \/ \E t \in Tasks : UpdCopyEnd(t)
    \/ \E t \in Tasks : UpdVerify(t)
    \/ \E t \in Tasks : UpdMarker(t)

SpecName == InitName /\ [][NextName]_vars

(***************************************************************************)
(* Claims about the destination name.                                      *)
(***************************************************************************)
\* the identity of the folder f differs from, or cannot be matched to, the
\* incoming item: different package identifiers, a package identifier on one
\* side only, or (without package identifiers) a different item ID
IdentityDiffers(f, src_pkg, mod_id) ==
    LET pkg == get_package_id(f)
    IN \/ src_pkg # NoId /\ pkg # NoId /\ src_pkg # pkg
       \/ (src_pkg = NoId) # (pkg = NoId)
       \/ /\ src_pkg = NoId /\ pkg = NoId
          /\ query_mod_id(f) \notin {NoId, mod_id}

\* task t leaves "resolve" with a folder name
Resolves(t) ==
    tpc[t] = "resolve" /\ tpc'[t] # "resolve" /\ tres'[t] # "find_failed"

\* the name of the title, for a call that derives the name itself
TitleName(t) == DerivedName(targ[t].title, targ[t].mod_id)

\* update_mod derives the name and finds a corrupted folder at it
CorruptedCollision(t) ==
    /\ targ[t].kind = "update" /\ targ[t].existing = NoName
    /\ FoldersWithId(mods, targ[t].mod_id) = {}
    /\ is_mod_corrupted(mods, TitleName(t))

IsUnderscoreName(name, base) ==
    \E k \in 1..(SAFETY_LIMIT + 1) : name = Underscores(base, k)

\* every name the rename loop can try exists
ChainExhausted(dir, base) ==
    \A k \in 1..(SAFETY_LIMIT + 1) : Exists(dir, Underscores(base, k))

StartsWith(name, prefix) ==
    Len(name) >= Len(prefix) /\ SubSeq(name, 1, Len(prefix)) = prefix

\* C8: a call that derived the destination name without an overwrite
\* decision does not delete (or change) an existing destination folder whose
\* identity differs from the incoming item.
C8_NoForeignFolderReplaced ==
    [][\A t \in Tasks :
          ( /\ tvia[t] = "derived" /\ targ[t].decision # "overwrite"
            /\ tpc[t] = "remove" /\ StepOf(t)
            /\ Exists(mods, tdest[t])
            /\ IdentityDiffers(mods[tdest[t]],
                               SourcePackageId(downloads, targ[t].mod_id),
                               targ[t].mod_id) )
          => ( Exists(mods', tdest[t])
               /\ mods'[tdest[t]] = mods[tdest[t]] )]_vars

\* C9: when the resolved destination exists and is corrupted and no decision
\* was supplied, the call returns the corrupted-mod conflict.
C9_CorruptedNeedsDecision ==
    [][\A t \in Tasks :
          ( /\ Resolves(t) /\ targ[t].decision = "none"
            /\ is_mod_corrupted(mods, tdest'[t]) )
          => tres'[t] = "conflict"]_vars

\* C10 as claimed: on a corrupted collision, overwrite keeps the name of the
\* title; rename resolves to that name with underscores appended, a name that
\* does not exist, and the corrupted folder is never changed.
C10_DecisionApplied ==
    [][\A t \in Tasks :
          /\ (Resolves(t) /\ CorruptedCollision(t)) =>
               /\ (targ[t].decision = "overwrite")
                     => (tdest'[t] = TitleName(t) /\ tres'[t] # "conflict")
               /\ (targ[t].decision = "rename")
                     => ( /\ IsUnderscoreName(tdest'[t], TitleName(t))
                          /\ ~Exists(mods, tdest'[t]) )
          /\ ( /\ tvia[t] = "derived" /\ targ[t].decision = "rename"
               /\ tdest[t] # TitleName(t)
               /\ is_mod_corrupted(mods, TitleName(t)) )
               => ( Exists(mods', TitleName(t))
                    /\ mods'[TitleName(t)] = mods[TitleName(t)] )]_vars

\* C10, amended: as claimed, except that when the names of 1..SAFETY_LIMIT+1
\* underscores all exist, rename resolves to a name that starts with the
\* fallback <title>_<item ID> (which may exist) and is not the title's name.
C10_DecisionAppliedUpToFallback ==
    [][\A t \in Tasks :
          /\ (Resolves(t) /\ CorruptedCollision(t)) =>
               /\ (targ[t].decision = "overwrite")
                     => (tdest'[t] = TitleName(t) /\ tres'[t] # "conflict")
               /\ (targ[t].decision = "rename")
                     => IF ChainExhausted(mods, TitleName(t))
                        THEN StartsWith(tdest'[t],
                                 FallbackName(TitleName(t), targ[t].mod_id))
                        ELSE /\ IsUnderscoreName(tdest'[t], TitleName(t))
                             /\ ~Exists(mods, tdest'[t])
          /\ ( /\ tvia[t] = "derived" /\ targ[t].decision = "rename"
               /\ tdest[t] # TitleName(t)
               /\ is_mod_corrupted(mods, TitleName(t)) )
               => ( Exists(mods', TitleName(t))
                    /\ mods'[TitleName(t)] = mods[TitleName(t)] )]_vars

\* a rename decision installed next to the corrupted folder, past a chain of
\* existing underscore names
C10_Witness ==
    \E t \in Tasks :
        /\ targ[t].decision = "rename" /\ tvia[t] = "derived"
        /\ tpc[t] = "done" /\ tres[t] = "ok"
        /\ is_mod_corrupted(mods, TitleName(t))
        /\ tdest[t] = Underscores(TitleName(t), ShortChain + 1)
        /\ query_mod_id(mods[tdest[t]]) = targ[t].mod_id

(***************************************************************************)
(* Claims about cancellation inside update_mod.                            *)
(***************************************************************************)
\* task t is an update_mod call
IsUpdate(t) == targ[t].kind = "update"

\* C11: with the cancel flag set, update_mod starts no backup, no removal of
\* the destination and no copy: at each of the three checks the call returns
\* "Update cancelled by user" (never a failure error) and leaves the mods
\* folder and the backup directory as they are. Only the failure to create
\* the mods folder, which precedes the first check, is reported instead.
C11_CancelStopsUpdate ==
    [][\A t \in Tasks :
          (IsUpdate(t) /\ StepOf(t) /\ cancelled) =>
             /\ (tpc[t] = "backup" /\ targ[t].backup)
                   => ( /\ tres'[t] \in {"cancelled", "io_error"}
                        /\ tpc'[t] = "done"
                        /\ backups' = backups /\ mods' = mods )
             /\ (tpc[t] = "remove" /\ tattempt[t] = 0
                                   /\ Exists(mods, tdest[t]))
                   => ( /\ tres'[t] = "cancelled" /\ tpc'[t] = "done"
                        /\ mods' = mods )
             /\ (tpc[t] = "source")
                   => ( /\ tpc'[t] = "done" /\ mods' = mods
                        /\ verify_mod_complete(downloads, targ[t].mod_id)
                              => tres'[t] = "cancelled" )]_vars

\* one call was cancelled before its backup, another before its removal or
\* its copy, and neither changed a folder it had not changed before
C11_Witness ==
    \E t, u \in Tasks :
        /\ IsUpdate(t) /\ IsUpdate(u) /\ cancelled
        /\ tres[t] = "cancelled" /\ targ[t].backup /\ tdest[t] \notin DOMAIN backups
        /\ tres[u] = "cancelled" /\ ~targ[u].backup
        /\ Exists(mods, tdest[u])

(***************************************************************************)
(* Claims about the fetch-tool processes of an attempt.                    *)
(***************************************************************************)
\* the batches whose fetch-tool process is running
RunningProcesses == {b \in 1..MaxInstances : bstate[b] = "running"}

\* C17: at every moment of every attempt, the fetch-tool processes running
\* are at most max_instances and at most the items that remain.
C17_ProcessesBounded ==
    /\ Cardinality(RunningProcesses) <= max_instances
    /\ Cardinality(RunningProcesses) <= Len(remaining_mod_ids)

\* a retry in which as many processes run as max_instances allows, one per
\* remaining item
C17_Witness ==
    /\ retry_count > 0
    /\ max_instances = MaxInstances
    /\ Len(remaining_mod_ids) = MaxInstances
    /\ Cardinality(RunningProcesses) = MaxInstances

(***************************************************************************)
(* SpecBal: the two balancers applied to every request of up to BalItems   *)
(* items, every size map and every number of instances.                    *)
(***************************************************************************)
BalIds == 1..BalItems

InitBal ==
    /\ mod_ids \in {[k \in 1..n |-> k] : n \in 1..BalItems}
    /\ has_sizes \in BOOLEAN
    /\ mod_sizes \in [BalIds -> 0..BalMaxSize]
    /\ \A i \in BalIds : (~has_sizes \/ i > Len(mod_ids)) => mod_sizes[i] = 0
    /\ max_instances \in 1..BalInstances
    /\ opc = "balance"
    /\ batches = <<>>
    /\ remaining_mod_ids = mod_ids /\ retry_count = 0 /\ tidx = 0
    /\ bstate = NoBatchState /\ cidx = NoIdx /\ det = NoDet
    /\ failed_mods_tracker = {} /\ downloaded_mods = {}
    /\ dl = [i \in Items |-> "absent"]
    /\ chan = <<>> /\ tx_dropped = FALSE /\ rx_done = FALSE
    /\ sent = NoSent
    /\ attempts = [i \in Items |-> 0]
    /\ DlOff /\ InstOff /\ UpdOff /\ AuxOff

balUnchanged == <<mod_ids, has_sizes, mod_sizes, max_instances,
                  remaining_mod_ids, retry_count, tidx, bstate, cidx, det,
                  failed_mods_tracker, downloaded_mods, dl, chan, tx_dropped,
                  rx_done, sent, attempts>>

\* Self::balance_mods_by_size(mod_ids, sizes, num_instances)
BalanceBySize ==
    /\ opc = "balance" /\ has_sizes
    /\ batches' = balance_mods_by_size(mod_ids, mod_sizes, max_instances)
    /\ opc' = "balanced"
    /\ UNCHANGED balUnchanged
    /\ UNCHANGED <<dlVars, instVars, updVars, auxVars>>

\* Self::balance_mods_round_robin(mod_ids, num_instances)
BalanceRoundRobin ==
    /\ opc = "balance" /\ ~has_sizes
    /\ batches' = balance_mods_round_robin(mod_ids, max_instances)
    /\ opc' = "balanced"
    /\ UNCHANGED balUnchanged
    /\ UNCHANGED <<dlVars, instVars, updVars, auxVars>>

NextBal == BalanceBySize \/ BalanceRoundRobin

SpecBal == InitBal /\ [][NextBal]_vars

RECURSIVE SumSizes(_, _)
SumSizes(s, size) ==
    IF s = <<>> THEN 0 ELSE size[Head(s)] + SumSizes(Tail(s), size)

\* the accumulated size of batch b
BatchLoad(b) == SumSizes(batches[b], mod_sizes)

CeilDiv(a, b) == (a + b - 1) \div b

MaxOf(S) == CHOOSE x \in S : \A y \in S : y <= x

\* every item of the request is in exactly one batch, once
IsPartition ==
    /\ \A k \in 1..Len(mod_ids) :
          Cardinality({b \in DOMAIN batches :
                          mod_ids[k] \in Range(batches[b])}) = 1
    /\ \A b \in DOMAIN batches :
          /\ Range(batches[b]) \subseteq Range(mod_ids)
          /\ Cardinality(Range(batches[b])) = Len(batches[b])

\* C18: after balance_mods_by_size, every instance's accumulated size is at
\* most ceil(totalSize / M) + max(itemSize), and no item is lost or doubled.
C18_LoadBound ==
    (opc = "balanced" /\ has_sizes) =>
        /\ Len(batches) = max_instances
        /\ IsPartition
        /\ \A b \in DOMAIN batches :
              BatchLoad(b) <= CeilDiv(SumSizes(mod_ids, mod_sizes),
                                      max_instances)
                              + MaxOf({mod_sizes[mod_ids[k]] :
                                          k \in 1..Len(mod_ids)})

\* more items than instances, sizes that differ, and an instance that
\* carries more than the even share
C18_Witness ==
    /\ opc = "balanced" /\ has_sizes
    /\ Len(mod_ids) > max_instances /\ max_instances > 1
    /\ \E j, k \in 1..Len(mod_ids) : mod_sizes[mod_ids[j]] # mod_sizes[mod_ids[k]]
    /\ \E b \in DOMAIN batches :
          BatchLoad(b) > CeilDiv(SumSizes(mod_ids, mod_sizes), max_instances)

MaxUnderscores == SAFETY_LIMIT + 1

\* the passes of the loop that lines 128-194 run on s, none when the match
\* takes an arm without a loop
PackageLoopIters(dir, s, src_pkg) ==
    IF ~(Exists(dir, s.proposed_path)
         /\ ~is_mod_corrupted(dir, s.proposed_path))
    THEN 0
    ELSE LET existing_pkg == get_package_id(dir[s.proposed_path])
         IN IF src_pkg # NoId /\ existing_pkg # NoId
            THEN IF src_pkg # existing_pkg
                 THEN UnderscoreIters(dir, s.folder_name, s.folder_name,
                                      src_pkg)
                 ELSE 0
            ELSE IF src_pkg # NoId \/ existing_pkg # NoId
            THEN UnderscoreIters(dir, s.folder_name, s.folder_name, NoId)
            ELSE 0

\* the passes of the rename loop of lines 99-115
RenameLoopIters(dir, name, decision) ==
    IF RenameLoopRuns(dir, name, decision)
    THEN UnderscoreIters(dir, name, name, NoId)
    ELSE 0

\* the names one loop can end with, starting from base
LoopResults(base, mod_id) ==
    {Underscores(base, k) : k \in 1..MaxUnderscores}
    \cup {FallbackName(base, mod_id)}

\* the names the resolution can end with, starting from the title's name
ResolvedNames(name, mod_id) ==
    LET first == {name} \cup LoopResults(name, mod_id)
    IN first
       \cup UNION {LoopResults(n, mod_id) : n \in first}
       \cup {ParenName(n, mod_id) : n \in first}

\* C20: the resolution of a derived name ends, whatever folders exist: the
\* rename loop and the package-identifier loop each make at most 51 passes
\* (51 appended underscores), and the name they end with is the name they
\* started from with at most 51 underscores appended, or with the item ID
\* appended.
C20_ResolutionBounded ==
    [][\A t \in Tasks :
          (tpc[t] = "resolve" /\ StepOf(t) /\ tvia'[t] = "derived") =>
             LET a == targ[t]
                 name == TitleName(t)
                 s == AfterCorruptedGate(mods, name, a.mod_id, a.decision)
             IN /\ RenameLoopIters(mods, name, a.decision) <= MaxUnderscores
                /\ (Exists(mods, name) /\ tres'[t] # "conflict") =>
                      PackageLoopIters(mods, s,
                          SourcePackageId(downloads, a.mod_id))
                         <= MaxUnderscores
                /\ tdest'[t] \in ResolvedNames(name, a.mod_id)]_vars

\* a loop gave up at the safety limit: the names of 1 to 51 underscores all
\* exist and the call went on with the fallback name
C20_Witness ==
    \E t \in Tasks :
        /\ tvia[t] = "derived" /\ tpc[t] \notin {"idle", "resolve"}
        /\ ChainExhausted(mods, TitleName(t))
        /\ Exists(mods, Underscores(TitleName(t), MaxUnderscores))
        /\ tdest[t] = FallbackName(TitleName(t), targ[t].mod_id)


(***************************************************************************)
(* update_mods (commands/update_handlers.rs): the consumer of the          *)
(* orchestrator's channel. It spawns one install task per Ok message,      *)
(* checks the cancel flag each time a message arrives, and returns one     *)
(* entry per install task plus one per item it never saw.                  *)
(*   SpecUpd   one update_mods run for two items, composed with the        *)
(*             orchestrator, the install tasks and cancel_update_mods.     *)
(***************************************************************************)
Handle(id) == [id |-> id, st |-> "spawned", res |-> "none"]

Handles == DOMAIN update_handles

\* failed_download_mod_ids: the requested ids not in seen_mod_ids
UnseenIds == Range(mod_ids) \ seen_mod_ids

\* kill_our_processes: every fetch-tool process this run spawned and that is
\* still running is killed; its wait() returns a failure status
KillOurProcesses ==
    bstate' = [b \in 1..MaxInstances |->
                 IF bstate[b] = "running" THEN "err" ELSE bstate[b]]

\* the runs of update_mods that are explored: one item from the first
\* attempt on, and two items in two batches from the last attempt on
UpdRuns == {[ids |-> <<1>>, from |-> 0, inst |-> 1],
            [ids |-> <<1, 2>>, from |-> MAX_RETRIES, inst |-> 2]}

\* the state when update_mods has the receiver (the flag was reset, the
\* orchestrator's task is spawned with an AppHandle, no message was read),
\* and the state of such a run whose first attempts all failed before their
\* batches started: nothing was sent, retry_count counts them
InitUpd ==
    /\ \E run \in UpdRuns :
         /\ mod_ids = run.ids
         /\ retry_count = run.from
         /\ max_instances = run.inst
         /\ attempts = [i \in Items |->
                          IF i \in Range(run.ids) THEN run.from ELSE 0]
    /\ has_sizes = FALSE
    /\ mod_sizes = [i \in Items |-> 0]
    /\ remaining_mod_ids = mod_ids
    /\ opc = "loop"
    /\ tidx = 0
    /\ batches = <<>>
    /\ bstate = NoBatchState
    /\ cidx = NoIdx
    /\ det = NoDet
    /\ failed_mods_tracker = {}
    /\ downloaded_mods = {}
    /\ dl = [i \in Items |-> "absent"]
    /\ chan = <<>>
    /\ tx_dropped = FALSE
    /\ rx_done = FALSE
    /\ sent = NoSent
    /\ DlOff /\ InstOff
    /\ app = TRUE
    /\ upc = "recv" /\ ucur = NoMsg
    /\ seen_mod_ids = {} /\ update_handles = <<>> /\ returned = <<>>
    /\ events = NoEvents
    /\ AuxOff

\* mod_receiver.recv() returns Some(result); the cancel check at the top of
\* the loop body. Cancelled: kill_our_processes, then wait for the install
\* tasks already spawned.
UpdRecvMsg ==
    /\ upc = "recv" /\ chan # <<>>
    /\ chan' = Tail(chan)
    /\ IF cancelled
       THEN /\ KillOurProcesses
            /\ upc' = "cancel_wait"
            /\ ucur' = NoMsg
       ELSE /\ upc' = "match"
            /\ ucur' = Head(chan)
            /\ UNCHANGED bstate
    /\ UNCHANGED <<orchLocals, batches, cidx, det, failed_mods_tracker,
                   downloaded_mods, dl, tx_dropped, rx_done, sent, attempts>>
    /\ UNCHANGED <<app, seen_mod_ids, update_handles, returned, events>>
    /\ UNCHANGED <<dlVars, instVars>>
    /\ UNCHANGED auxVars

\* match result: Ok(downloaded_mod) checks the flag again, records the id in
\* seen_mod_ids and spawns the install task; Err(error_msg) is only logged
UpdMatch ==
    /\ upc = "match"
    /\ upc' = "recv"
    /\ ucur' = NoMsg
    /\ IF ucur.kind = "ok" /\ ~cancelled /\ Len(update_handles) < MaxHandles
       THEN /\ seen_mod_ids' = seen_mod_ids \cup {ucur.id}
            /\ update_handles' = Append(update_handles, Handle(ucur.id))
       ELSE /\ ucur.kind = "ok" => cancelled
            /\ UNCHANGED <<seen_mod_ids, update_handles>>
    /\ UNCHANGED <<app, returned, events>>
    /\ UNCHANGED <<orchVars, dlVars, instVars>>
    /\ UNCHANGED auxVars

\* recv() returns None: the loop ends. The ids never seen get mod-updated
\* with success false, or the "cancelled" state when the flag is set.
UpdRecvNone ==
    /\ upc = "recv" /\ chan = <<>> /\ tx_dropped
    /\ upc' = "join"
    /\ rx_done' = TRUE
    /\ events' = Emit(UnseenIds, IF cancelled THEN "cancelled"
                                 ELSE "update_error")
    /\ UNCHANGED <<orchLocals, attemptVars, dl, chan, tx_dropped, sent,
                   attempts>>
    /\ UNCHANGED <<app, ucur, seen_mod_ids, update_handles, returned>>
    /\ UNCHANGED <<dlVars, instVars>>
    /\ UNCHANGED auxVars

\* the Vec<BaseMod> built from the install tasks' results, in spawn order,
\* followed by the ids never seen
ReturnedMods ==
    [k \in Handles |-> [id |-> update_handles[k].id,
                        updated |-> update_handles[k].res = "ok"]]
    \o [k \in 1..Len(SelectSeq(mod_ids, LAMBDA i : i \in UnseenIds)) |->
          [id |-> SelectSeq(mod_ids, LAMBDA i : i \in UnseenIds)[k],
           updated |-> FALSE]]

\* join_all(update_handles) returned; update_mods returns and drops the
\* receiver. On the path of the cancel check in the loop the ids never seen
\* get the "cancelled" state here.
UpdReturn ==
    /\ upc \in {"cancel_wait", "join"}
    /\ \A k \in Handles : update_handles[k].st = "done"
    /\ returned' = ReturnedMods
    /\ upc' = "returned"
    /\ rx_done' = TRUE
    /\ chan' = <<>>
    /\ events' = IF upc = "cancel_wait" THEN Emit(UnseenIds, "cancelled")
                 ELSE events
    /\ UNCHANGED <<orchLocals, attemptVars, dl, tx_dropped, sent, attempts>>
    /\ UNCHANGED <<app, ucur, seen_mod_ids, update_handles>>
    /\ UNCHANGED <<dlVars, instVars>>
    /\ UNCHANGED auxVars

\* the spawned install task starts: its cancel check, before update_mod
InstallStart(h) ==
    /\ h \in Handles /\ update_handles[h].st = "spawned"
    /\ IF cancelled
       THEN /\ update_handles' = [update_handles EXCEPT
                                    ![h] = [@ EXCEPT !.st = "done",
                                                     !.res = "err"]]
            /\ events' = Emit({update_handles[h].id}, "cancelled")
       ELSE /\ update_handles' = [update_handles EXCEPT ![h].st = "installing"]
            /\ UNCHANGED events
    /\ UNCHANGED <<app, upc, ucur, seen_mod_ids, returned>>
    /\ UNCHANGED <<orchVars, dlVars, instVars>>
    /\ UNCHANGED auxVars

\* update_mod returned. Ok needs a complete download folder (the source
\* check of update_mod) and emits "completed"; Err, that of a cancel check
\* inside update_mod included, emits mod-updated with success false.
InstallFinish(h) ==
    /\ h \in Handles /\ update_handles[h].st = "installing"
    /\ \E ok \in BOOLEAN :
         /\ ok => verify_mod_download_complete(update_handles[h].id)
         /\ update_handles' = [update_handles EXCEPT
                                 ![h] = [@ EXCEPT !.st = "done",
                                                  !.res = IF ok THEN "ok"
                                                            ELSE "err"]]
         /\ events' = Emit({update_handles[h].id},
                           IF ok THEN "completed" ELSE "update_error")
    /\ UNCHANGED <<app, upc, ucur, seen_mod_ids, returned>>
    /\ UNCHANGED <<orchVars, dlVars, instVars>>
    /\ UNCHANGED auxVars

UpdStep ==
    \/ UpdRecvMsg
    \/ UpdMatch
    \/ UpdRecvNone
    \/ UpdReturn

InstallStep ==
    \/ \E h \in 1..MaxHandles : InstallStart(h)
    \/ \E h \in 1..MaxHandles : InstallFinish(h)

ToolStep ==
    \/ \E b \in 1..MaxInstances, i \in Items : ToolWritesFolder(b, i)
    \/ \E b \in 1..MaxInstances, i \in Items : ToolReportsFailure(b, i)
    \/ \E b \in 1..MaxInstances : ToolExits(b)

NextUpd ==
    \/ OrchStep
    \/ ToolStep
    \/ UpdStep
    \/ InstallStep
    \/ CancelUpdate

SpecUpd == InitUpd /\ [][NextUpd]_vars


(***************************************************************************)
(* C12: what update_mods returns.                                          *)
(***************************************************************************)
EntriesOf(i) == {k \in DOMAIN returned : returned[k].id = i}

\* an install task of the item returned Ok
InstalledOk(i) ==
    \E h \in Handles : update_handles[h].id = i /\ update_handles[h].res = "ok"

\* C12 (as claimed): update_mods returns every requested item exactly once,
\* as updated exactly when its install task finished successfully and as not
\* updated otherwise.
C12_ReturnedExactlyOnce ==
    upc = "returned" =>
        \A i \in Range(mod_ids) :
            /\ Cardinality(EntriesOf(i)) = 1
            /\ \A k \in EntriesOf(i) : returned[k].updated <=> InstalledOk(i)

(***************************************************************************)
(* C13: the cancel flag and the retry loop.                                *)
(***************************************************************************)
\* C13 (as claimed): once the cancel flag is set, the loop of
\* download_mods_with_sizes starts no new attempt.
C13_NoAttemptAfterCancel ==
    [][cancelled => ~(opc = "loop" /\ opc' \in {"attempt", "attempt_err"})]_vars

(***************************************************************************)
(* C14: terminal lifecycle states.                                         *)
(***************************************************************************)
\* the terminal states an item was given; mod-updated with success false is
\* read as "failed"
TerminalStates(i) ==
    {IF e = "update_error" THEN "failed" ELSE e : e \in events[i]}

\* the orchestrator's task and update_mods have both ended
RunOver == upc = "returned" /\ opc = "closed"

\* C14 (as claimed): no requested item is given two different terminal
\* lifecycle states, and when the run is over every requested item has one.
C14_OneTerminalState ==
    \A i \in Range(mod_ids) :
        /\ Cardinality(TerminalStates(i)) <= 1
        /\ RunOver => Cardinality(TerminalStates(i)) = 1

(***************************************************************************)
(* C15: failures stay with their item.                                     *)
(***************************************************************************)
\* the step in which download_mods_with_sizes reconciles an attempt whose
\* batches have run
Reconciles == opc = "attempt" /\ opc' # "attempt"

\* install task h ends with an error in this step
FailsNow(h) ==
    /\ update_handles[h].st # "done"
    /\ update_handles'[h].st = "done" /\ update_handles'[h].res = "err"

\* C15: when an attempt is reconciled, every item a batch returned as
\* downloaded was sent as a success and leaves the retry set, whatever the
\* other batches of the attempt did; the step in which an install task ends
\* with an error changes no other install task, and update_mods reports each
\* task's own result.
C15_FailureIsolated ==
    [][/\ Reconciles =>
             \A i \in downloaded_mods :
                 sent[i].ok /\ i \notin Range(remaining_mod_ids')
       /\ \A h \in Handles :
             FailsNow(h) =>
                 \A k \in Handles \ {h} : update_handles'[k] = update_handles[k]
       /\ (upc # "returned" /\ upc' = "returned") =>
             \A h \in Handles :
                 returned'[h] = [id |-> update_handles[h].id,
                                 updated |-> update_handles[h].res = "ok"]]_vars

\* witness: two items in two batches; item 1 failed its download and its
\* install, item 2 was delivered, dropped from the retry set and installed
C15_Witness ==
    /\ max_instances = 2 /\ mod_ids = <<1, 2>>
    /\ remaining_mod_ids = <<1>>
    /\ sent[2].ok /\ sent[1].n >= 1
    /\ \E h, k \in Handles :
          /\ update_handles[h].id = 1 /\ update_handles[h].res = "err"
          /\ update_handles[k].id = 2 /\ update_handles[k].res = "ok"
    /\ upc = "returned"
    /\ \E k \in DOMAIN returned : returned[k] = [id |-> 2, updated |-> TRUE]


(***************************************************************************)
(* download_mod composed with the run it starts.                           *)
(*   SpecDlOrch  one download_mod call that holds the receiver of          *)
(*               download_mods(&[mod_id]), with the orchestrator's task.   *)
(***************************************************************************)
\* the state when download_mods(&[mod_id], Some(&app), ..) has returned the
\* receiver: the id is marked, the spawned task is at its first loop test
InitDlOrch ==
    /\ mod_ids = <<1>>
    /\ has_sizes = FALSE
    /\ mod_sizes = [i \in Items |-> 0]
    /\ max_instances \in 1..MaxInstances
    /\ remaining_mod_ids = mod_ids
    /\ retry_count = 0
    /\ opc = "loop"
    /\ tidx = 0
    /\ batches = <<>>
    /\ bstate = NoBatchState
    /\ cidx = NoIdx
    /\ det = NoDet
    /\ failed_mods_tracker = {}
    /\ downloaded_mods = {}
    /\ dl = [i \in Items |-> "absent"]
    /\ chan = <<>>
    /\ tx_dropped = FALSE
    /\ rx_done = FALSE
    /\ sent = NoSent
    /\ attempts = [i \in Items |-> 0]
    /\ active_downloads = {1}
    /\ dpc = [c \in Calls |-> IF c = 1 THEN "fetching" ELSE "idle"]
    /\ did = [c \in Calls |-> 1]
    /\ dres = [c \in Calls |-> "none"]
    /\ InstOff
    /\ app = TRUE
    /\ upc = "off" /\ ucur = NoMsg
    /\ seen_mod_ids = {} /\ update_handles = <<>> /\ returned = <<>>
    /\ events = NoEvents
    /\ AuxOff

\* mod_receiver.recv().await: the one message download_mod reads. Ok goes on
\* to the install; Err and None return at once, which drops the receiver.
DlTake(c) ==
    /\ dpc[c] = "fetching"
    /\ \/ /\ chan # <<>> /\ Head(chan).kind = "ok"
          /\ chan' = Tail(chan)
          /\ dpc' = [dpc EXCEPT ![c] = "install"]
          /\ UNCHANGED <<active_downloads, dres, rx_done>>
       \/ /\ chan # <<>> /\ Head(chan).kind # "ok"
          /\ chan' = <<>>
          /\ rx_done' = TRUE
          /\ active_downloads' = mark_downloaded(active_downloads, did[c])
          /\ dpc' = [dpc EXCEPT ![c] = "returned"]
          /\ dres' = [dres EXCEPT ![c] = "download_failed"]
       \/ /\ chan = <<>> /\ tx_dropped
          /\ chan' = <<>>
          /\ rx_done' = TRUE
          /\ active_downloads' = mark_downloaded(active_downloads, did[c])
          /\ dpc' = [dpc EXCEPT ![c] = "returned"]
          /\ dres' = [dres EXCEPT ![c] = "no_folder"]
    /\ UNCHANGED did
    /\ UNCHANGED <<orchLocals, attemptVars, dl, tx_dropped, sent, attempts>>
    /\ UNCHANGED <<instVars, updVars, auxVars>>

\* update_mod, mark_downloaded and the return, which drops the receiver
DlFinish(c) ==
    /\ dpc[c] = "install"
    /\ \E r \in {"ok", "conflict", "update_failed"} :
         dres' = [dres EXCEPT ![c] = r]
    /\ active_downloads' = mark_downloaded(active_downloads, did[c])
    /\ dpc' = [dpc EXCEPT ![c] = "returned"]
    /\ chan' = <<>>
    /\ rx_done' = TRUE
    /\ UNCHANGED did
    /\ UNCHANGED <<orchLocals, attemptVars, dl, tx_dropped, sent, attempts>>
    /\ UNCHANGED <<instVars, updVars, auxVars>>

NextDlOrch ==
    \/ OrchStep
    \/ ToolStep
    \/ \E c \in Calls : DlTake(c)
    \/ \E c \in Calls : DlFinish(c)

SpecDlOrch == InitDlOrch /\ [][NextDlOrch]_vars

\* every attempt the loop can make for the item has been started
Exhausted(i) == attempts[i] = MAX_RETRIES + 1

\* C16 (as claimed): download_mod returns a download failure only when the
\* orchestrator has made every attempt for the item.
C16_FailureOnlyAfterExhaustion ==
    \A c \in Calls : dres[c] = "download_failed" => Exhausted(did[c])


(***************************************************************************)
(* Claims about a collision with a folder that is not corrupted.           *)
(***************************************************************************)
\* update_mod derives the name and finds a folder at it that is not
\* corrupted
ValidCollision(t) ==
    /\ targ[t].kind = "update" /\ targ[t].existing = NoName
    /\ FoldersWithId(mods, targ[t].mod_id) = {}
    /\ Exists(mods, TitleName(t))
    /\ ~is_mod_corrupted(mods, TitleName(t))

\* both package identifiers are present and equal
SameIdentity(src_pkg, pkg) == src_pkg # NoId /\ pkg # NoId /\ src_pkg = pkg

\* both are present and differ, or one side only has one
OtherIdentity(src_pkg, pkg) ==
    \/ src_pkg # NoId /\ pkg # NoId /\ src_pkg # pkg
    \/ (src_pkg = NoId) # (pkg = NoId)

\* the name is the base with underscores, and names no folder or a folder
\* with the source's package identifier
DisambiguatedName(dir, name, base, src_pkg) ==
    /\ IsUnderscoreName(name, base)
    /\ \/ ~Exists(dir, name)
       \/ /\ Exists(dir, name)
          /\ src_pkg # NoId /\ get_package_id(dir[name]) = src_pkg

\* C21 (as claimed): on a collision with a folder that is not corrupted,
\* equal package identifiers keep the derived name and the call goes on to
\* overwrite; differing identifiers, or an identifier on one side only, give
\* the derived name with one or more underscores, naming no folder or a
\* folder with the source's package identifier.
C21_CollisionNaming ==
    [][\A t \in Tasks :
          (Resolves(t) /\ ValidCollision(t)) =>
             LET src_pkg == SourcePackageId(downloads, targ[t].mod_id)
                 pkg == get_package_id(mods[TitleName(t)])
             IN /\ SameIdentity(src_pkg, pkg)
                      => (tdest'[t] = TitleName(t) /\ tpc'[t] = "backup")
                /\ OtherIdentity(src_pkg, pkg)
                      => DisambiguatedName(mods, tdest'[t], TitleName(t),
                                           src_pkg)]_vars

\* C21, amended: as claimed, except that when the names of 1..SAFETY_LIMIT+1
\* underscores all exist and the loop stopped at none of them, the final name
\* is the fallback <derived name>_<item ID>, whatever is at that name.
C21_CollisionNamingUpToFallback ==
    [][\A t \in Tasks :
          (Resolves(t) /\ ValidCollision(t)) =>
             LET src_pkg == SourcePackageId(downloads, targ[t].mod_id)
                 pkg == get_package_id(mods[TitleName(t)])
             IN /\ SameIdentity(src_pkg, pkg)
                      => (tdest'[t] = TitleName(t) /\ tpc'[t] = "backup")
                /\ OtherIdentity(src_pkg, pkg)
                      => \/ DisambiguatedName(mods, tdest'[t], TitleName(t),
                                              src_pkg)
                         \/ /\ ChainExhausted(mods, TitleName(t))
                            /\ tdest'[t] = FallbackName(TitleName(t),
                                                        targ[t].mod_id)]_vars

\* the call has resolved, past a folder of another package at the derived
\* name and one at the first underscore name, to the folder that has the
\* source's package identifier
C21_Witness ==
    \E t \in Tasks :
        /\ tvia[t] = "derived" /\ tpc[t] = "backup"
        /\ ValidCollision(t)
        /\ get_package_id(mods[TitleName(t)]) = "pkg.b"
        /\ tdest[t] = Underscores(TitleName(t), 2)
        /\ Exists(mods, tdest[t])
        /\ get_package_id(mods[tdest[t]]) = "pkg.a"
        /\ SourcePackageId(downloads, targ[t].mod_id) = "pkg.a"


(***************************************************************************)
(* Claims about the source of the destination name.                        *)
(***************************************************************************)
\* mod_title.unwrap_or(mod_id) as a folder name
BaseName(a) == <<IF a.title = NoId THEN a.mod_id ELSE a.title>>

\* C22: update_mod takes the destination name from the caller's
\* existing_folder_name when given; otherwise from a folder of the mods
\* folder whose PublishedFileId.txt holds the item ID; otherwise from the
\* title, or from the item ID without a title: the name itself when nothing
\* is at it, a name that starts with it otherwise.
C22_NamePriority ==
    [][\A t \in Tasks :
          (Resolves(t) /\ targ[t].kind = "update") =>
             LET a == targ[t]
                 found == {n \in DOMAIN mods :
                              mods[n].about /\ mods[n].pfid = a.mod_id}
             IN /\ a.existing # NoName => tdest'[t] = a.existing
                /\ (a.existing = NoName /\ found # {}) => tdest'[t] \in found
                /\ (a.existing = NoName /\ found = {}) =>
                      /\ StartsWith(tdest'[t], BaseName(a))
                      /\ ~Exists(mods, BaseName(a)) => tdest'[t] = BaseName(a)]_vars

\* the caller's name was used and installed to although another folder
\* carries the item ID
C22_Witness ==
    \E t \in Tasks :
        /\ targ[t].existing = Alpha /\ tdest[t] = Alpha
        /\ tpc[t] = "done" /\ tres[t] = "ok"
        /\ Exists(mods, Beta) /\ query_mod_id(mods[Beta]) = targ[t].mod_id


(***************************************************************************)
(* Claims about the replaced destination.                                  *)
(***************************************************************************)
\* the source tree with About/PublishedFileId.txt holding the item ID: as
\* the source has it when its trimmed content is the item ID
Installed(src, mod_id) ==
    IF src.about /\ src.pfid \in {mod_id, "111\n"} THEN src
    ELSE [src EXCEPT !.about = TRUE, !.pfid = mod_id]

\* C23: the copy of update_mod leaves at the destination the entries of the
\* source and nothing else, whatever the destination held before, and when
\* the call returns Ok the destination is the source tree with its marker
\* file, at the folder name the call resolved.
C23_DestinationReplaced ==
    [][\A t \in Tasks :
          LET d == tdest[t]
              src == downloads[targ[t].mod_id]
          IN /\ (tpc[t] = "copying" /\ tpc'[t] = "verify")
                   => (Exists(mods', d) /\ mods'[d] = src)
             /\ (targ[t].kind = "update" /\ tres[t] # "ok" /\ tres'[t] = "ok")
                   => ( /\ Exists(mods', d)
                        /\ mods'[d] = Installed(src, targ[t].mod_id)
                        /\ tdest'[t] = d )]_vars

\* a folder carrying the item ID was replaced by a source that has no
\* About.xml
C23_Witness ==
    \E t \in Tasks :
        /\ tvia[t] = "reuse" /\ tres[t] = "ok"
        /\ tdest[t] = Beta
        /\ ~downloads[targ[t].mod_id].xml
        /\ mods[Beta] = Folder(TRUE, FALSE, NoId, targ[t].mod_id)
        /\ ~Exists(mods, Alpha)


(***************************************************************************)
(* Claims about the backup step.                                           *)
(***************************************************************************)
\* the positions of update_mod up to the registration of the destination
BeforeRemoval(pc) == pc \in {"idle", "resolve", "backup", "register"}

\* C24: when update_mod is asked for a backup and the destination exists,
\* the backup step either fails, and the call returns without touching the
\* destination, or leaves at the backup location exactly what the
\* destination holds, whatever backup was there; and no step of the call up
\* to and including the backup step changes the mods folder.
C24_BackupBeforeDelete ==
    [][\A t \in Tasks :
          (targ[t].kind = "update" /\ targ[t].backup /\ StepOf(t)) =>
             /\ BeforeRemoval(tpc[t]) => mods' = mods
             /\ (tpc[t] = "backup" /\ Exists(mods, tdest[t])) =>
                   \/ /\ tpc'[t] = "register"
                      /\ Exists(backups', tdest[t])
                      /\ backups'[tdest[t]] = mods[tdest[t]]
                   \/ /\ tpc'[t] = "done"
                      /\ tres'[t] \in {"io_error", "cancelled"}]_vars

\* a call with a backup has replaced a destination that was an empty folder:
\* the backup, which was a stale valid one or none, is now the empty folder
C24_Witness ==
    \E t \in Tasks :
        /\ targ[t].kind = "update" /\ targ[t].backup
        /\ tpc[t] = "remove" /\ tdest[t] = Alpha
        /\ Exists(mods, Alpha) /\ mods[Alpha] = EmptyFolder
        /\ Exists(backups, Alpha) /\ backups[Alpha] = EmptyFolder
        /\ \A u \in Tasks \ {t} : tpc[u] = "idle"


\* what restore_backup leaves in the mods folder when every step succeeds
\* (backup_handlers.rs 201-217): the folder removed, created again, and the
\* backup copied into it
RestoredFrom(m, b, name) ==
    LET fresh == CreateDst(RemoveDir(m, name), name)
    IN PutDir(fresh, name, CopyOver(fresh[name], b[name]))

CorrectMarker(f) == f.about /\ f.pfid \in {OwnId, "111\n"}

\* C26: at every Ok return of update_mod the installed folder has an
\* About/PublishedFileId.txt whose trimmed content is the item ID; a file
\* that was already correct is left as it is, byte for byte, and otherwise
\* the file is created or rewritten to hold the item ID, the rest of the
\* folder unchanged.
C26_MarkerAfterInstall ==
    [][\A t \in Tasks :
          (targ[t].kind = "update" /\ targ[t].mod_id = OwnId
             /\ tres[t] # "ok" /\ tres'[t] = "ok") =>
             LET d == tdest[t]
             IN /\ Exists(mods, d) /\ Exists(mods', d)
                /\ CorrectMarker(mods'[d])
                /\ CorrectMarker(mods[d]) => mods' = mods
                /\ ~CorrectMarker(mods[d]) =>
                      mods'[d] = [mods[d] EXCEPT !.about = TRUE, !.pfid = OwnId]]_vars

\* an install whose download carried the item ID followed by a newline has
\* returned Ok and the file is as the download had it
C26_Witness ==
    \E t \in Tasks :
        /\ targ[t].kind = "update" /\ tres[t] = "ok"
        /\ Exists(mods, tdest[t])
        /\ mods[tdest[t]] = downloads[targ[t].mod_id]
        /\ mods[tdest[t]].pfid = "111\n"


(***************************************************************************)
(* ModUpdater::sanitize_folder_name (mod_manager.rs 12-42).  A name is a   *)
(* sequence of characters: a letter, a letter of two bytes in UTF-8, the   *)
(* space, the dot, a character the filter removes, and the tab, which is   *)
(* both a control character and whitespace.                                *)
(***************************************************************************)
WideChar == "U+00E9"

NameChars == {"a", WideChar, " ", ".", "<", "\t"}

\* char::len_utf8
len_utf8(c) == IF c = WideChar THEN 2 ELSE 1

\* the characters the filter of line 15 drops
IsFiltered(c) == c \in {"<", ">", ":", "\"", "/", "\\", "|", "?", "*", "\t"}

Whitespace == {" ", "\t"}

\* char::is_whitespace
is_whitespace(c) == c \in Whitespace

\* |c: char| c == '.' || c.is_whitespace()
DotOrWhitespace == {"."} \cup Whitespace

RECURSIVE ByteLen(_)
\* String::len: the length in bytes
ByteLen(s) == IF s = <<>> THEN 0 ELSE len_utf8(Head(s)) + ByteLen(Tail(s))

\* .chars().filter(..).collect()
FilterChars(s) == SelectSeq(s, LAMBDA c : ~IsFiltered(c))

RECURSIVE split_whitespace(_, _)
\* str::split_whitespace: the non-empty words between runs of whitespace;
\* word is the word being read
split_whitespace(s, word) ==
    IF s = <<>> THEN (IF word = <<>> THEN <<>> ELSE <<word>>)
    ELSE IF is_whitespace(Head(s))
    THEN (IF word = <<>> THEN <<>> ELSE <<word>>)
             \o split_whitespace(Tail(s), <<>>)
    ELSE split_whitespace(Tail(s), Append(word, Head(s)))

RECURSIVE join(_)
\* [&str]::join(" ")
join(words) ==
    IF words = <<>> THEN <<>>
    ELSE IF Len(words) = 1 THEN words[1]
    ELSE words[1] \o <<" ">> \o join(Tail(words))

RECURSIVE trim_start_matches(_, _)
\* str::trim_start_matches with the set of characters the pattern matches
trim_start_matches(s, drop) ==
    IF s # <<>> /\ Head(s) \in drop THEN trim_start_matches(Tail(s), drop)
    ELSE s

RECURSIVE trim_end_matches(_, _)
trim_end_matches(s, drop) ==
    IF s # <<>> /\ s[Len(s)] \in drop
    THEN trim_end_matches(SubSeq(s, 1, Len(s) - 1), drop)
    ELSE s

\* str::trim_matches
trim_matches(s, drop) == trim_end_matches(trim_start_matches(s, drop), drop)

\* str::trim
trim_str(s) == trim_matches(s, Whitespace)

\* str::is_char_boundary
is_char_boundary(s, n) ==
    \E k \in 0..Len(s) : ByteLen(SubSeq(s, 1, k)) = n

\* String::truncate(n) at a character boundary
truncate(s, n) ==
    LET k == CHOOSE j \in 0..Len(s) : ByteLen(SubSeq(s, 1, j)) = n
    IN SubSeq(s, 1, k)

\* lines 13-29: the name before the fallback and the length limit
Cleaned(name) ==
    trim_matches(trim_str(join(split_whitespace(FilterChars(name), <<>>))),
                 DotOrWhitespace)

ModFallback == <<"M", "o", "d">>

InitSan ==
    /\ san_pc = "call"
    /\ san_name \in UNION {[1..n -> NameChars] : n \in 0..MaxNameLen}
    /\ san_out = <<>>
    /\ fs_seen = {} /\ fsq = <<>> /\ wcur = NoFsEvent
    /\ known_mods = <<>> /\ emitted = {}
    /\ OrchOff /\ DlOff /\ InstOff /\ UpdOff /\ ScriptOff

\* sanitize_folder_name(name): String::truncate panics when the limit is
\* not at a character boundary
SanitizeFolderName ==
    /\ san_pc = "call"
    /\ LET sanitized == Cleaned(san_name)
       IN IF sanitized = <<>>
          THEN san_out' = ModFallback /\ san_pc' = "returned"
          ELSE IF ByteLen(sanitized) > NameCap
          THEN IF is_char_boundary(sanitized, NameCap)
               THEN /\ san_out' = trim_str(truncate(sanitized, NameCap))
                    /\ san_pc' = "returned"
               ELSE san_out' = <<>> /\ san_pc' = "panicked"
          ELSE san_out' = sanitized /\ san_pc' = "returned"
    /\ UNCHANGED <<san_name, watchVars, scriptVars>>
    /\ UNCHANGED <<orchVars, dlVars, instVars, updVars>>

NextSan == SanitizeFolderName

SpecSan == InitSan /\ [][NextSan]_vars

\* C27: for every input, sanitize_folder_name returns a name that is not
\* empty, has at most the limit of characters, holds no character the
\* filter removes and no control character, no two spaces in a row, and no
\* dot or space at either end.
C27_SanitizedNameIsSafe ==
    san_pc \notin {"call", "off"} =>
        /\ san_pc = "returned"
        /\ san_out # <<>>
        /\ Len(san_out) <= NameCap
        /\ \A k \in 1..Len(san_out) : san_out[k] \notin {"<", "\t"}
        /\ \A k \in 1..(Len(san_out) - 1) :
               ~(san_out[k] = " " /\ san_out[k + 1] = " ")
        /\ san_out[1] \notin {".", " "}
        /\ san_out[Len(san_out)] \notin {".", " "}


(***************************************************************************)
(* restore_backup called once, with a backup directory that is apart from  *)
(* the mod folder, is the mods folder, is the mod folder, or is inside it. *)
(***************************************************************************)
BackupDirectories ==
    {BackupsPath, ModsPath, ModPath(Alpha), Append(ModPath(Alpha), "old")}

InitRst ==
    /\ mods \in OptDirs(Alpha, {Valid("pkg.a", OwnId), EmptyFolder})
    /\ backups \in OptDirs(Alpha, {Valid("pkg.a", OwnId), EmptyFolder})
    /\ downloads = EmptyDir
    /\ \E b \in BackupDirectories :
         targ = [t \in Tasks |-> IF t = 1 THEN RestoreFrom(Alpha, b)
                                 ELSE NoArgs]
    /\ TaskStart({1})
    /\ OrchOff /\ DlOff /\ UpdOff /\ AuxOff

NextRst ==
    \/ \E t \in Tasks : RstCall(t)
    \/ \E t \in Tasks : RstCheck(t)
    \/ \E t \in Tasks : RstRegister(t)
    \/ \E t \in Tasks : RstRemove(t)
    \/ \E t \in Tasks : RstCopyBegin(t)
    \/ \E t \in Tasks : RstCopyEnd(t)
    \/ \E t \in Tasks : RstDelete(t)

SpecRst == InitRst /\ [][NextRst]_vars

\* the backup directory and the mod path of the call are in one of the
\* relations restore_backup refuses
RefusedPaths(a) ==
    LET mod_path == <<"mods", a.existing>>
        dir == a.backup_directory
        IsPrefix(p, q) == Len(p) <= Len(q) /\ \A k \in 1..Len(p) : p[k] = q[k]
    IN \/ IsPrefix(dir, mod_path)
       \/ IsPrefix(mod_path, dir)
       \/ dir \o <<a.existing>> = mod_path

\* C28: a restore_backup whose backup directory is the mod path, contains
\* it or lies inside it, whose backup path is the mod path, or that finds
\* no backup of the folder name, returns an error at its checks with the
\* mods folder and the backups as they were; and whenever restore_backup
\* removes the mod folder, a backup of it exists.
C28_RestoreRefused ==
    [][\A t \in Tasks :
          (targ[t].kind = "restore" /\ StepOf(t)) =>
             /\ (tpc[t] = "rcheck"
                   /\ (RefusedPaths(targ[t]) \/ ~Exists(backups, targ[t].existing)))
                   => /\ tpc'[t] = "done"
                      /\ tres'[t] \notin {"ok", "none"}
                      /\ mods' = mods /\ backups' = backups
             /\ mods' # mods => tpc[t] \notin {"idle", "rcheck", "rregister"}
             /\ (Exists(mods, tdest[t]) /\ mods' # mods /\ tpc[t] = "rremove")
                   => Exists(backups, tdest[t])]_vars

\* a restore whose backup directory is the mods folder itself was refused
\* with the mod folder and a backup of the name both in place
C28_Witness ==
    \E t \in Tasks :
        /\ targ[t].kind = "restore" /\ targ[t].backup_directory = ModsPath
        /\ tpc[t] = "done" /\ tres[t] = "paths_overlap"
        /\ Exists(mods, Alpha) /\ Exists(backups, Alpha)


(***************************************************************************)
(* ModWatcher (core/mod_watcher.rs) beside one update_mod call.  The       *)
(* notify backend reports the removal of a path it held as existing; the   *)
(* processing task takes the events one at a time.  Create events go to    *)
(* check_single_folder, whose query_mod_info is not part of the sources:   *)
(* the model follows the removal events and the periodic check.            *)
(***************************************************************************)
\* Path::parent
parent(path) == SubSeq(path, 1, Len(path) - 1)

AboutPath(name) == Append(ModPath(name), "About")

\* the path is on the disk: a mod folder, or the About folder of one
PathExists(dir, path) ==
    /\ Exists(dir, path[2])
    /\ Len(path) = 3 => dir[path[2]].about

\* the paths below the mods folder that a tree of mod folders holds
PathsOf(dir) ==
    {ModPath(n) : n \in DOMAIN dir}
        \cup {AboutPath(n) : n \in {m \in DOMAIN dir : dir[m].about}}

\* k without the entry of the folder name
Forget(k, name) == [n \in DOMAIN k \ {name} |-> k[n]]

ModRemoved(name, mod_id) ==
    [event |-> "mod-removed", path |-> ModPath(name), mod_id |-> mod_id]

\* start_watching (lines 32-116): known_mods is the list of installed mods
InitWatch ==
    /\ mods = PutDir(Dir1(Alpha, Valid("pkg.a", OwnId)), Beta, Foreign)
    /\ backups = EmptyDir
    /\ downloads \in OptDirs(OwnId, {Valid("pkg.a", NoId), EmptyFolder})
    /\ \E e \in {NoName, Alpha} :
         targ = [t \in Tasks |-> IF t = 1 THEN UpdateArgs(e, FALSE, "none")
                                 ELSE NoArgs]
    /\ TaskStart({1})
    /\ known_mods = [n \in DOMAIN mods |-> query_mod_id(mods[n])]
    /\ fs_seen = PathsOf(mods)
    /\ fsq = <<>> /\ wcur = NoFsEvent /\ emitted = {}
    /\ san_pc = "off" /\ san_name = <<>> /\ san_out = <<>>
    /\ OrchOff /\ DlOff /\ UpdOff /\ ScriptOff

\* the user deletes the folder of another mod with a file manager
ExternalRemove ==
    /\ Exists(mods, Beta)
    /\ mods' = RemoveDir(mods, Beta)
    /\ UNCHANGED <<backups, downloads, ignored, cancelled, targ, tpc, tdest,
                   tvia, tres, tattempt>>
    /\ UNCHANGED <<orchVars, dlVars, updVars, auxVars>>

\* lines 95-100: the backend's callback sends the event of a path that is
\* gone; a folder is reported after what was inside it
FsNotifyRemove ==
    /\ \E p \in fs_seen :
         /\ ~PathExists(mods, p)
         /\ Len(p) = 2 => AboutPath(p[2]) \notin fs_seen
         /\ fs_seen' = fs_seen \ {p}
         /\ fsq' = Append(fsq, [kind |-> "Remove", path |-> p])
    /\ UNCHANGED <<wcur, known_mods, emitted, sanVars, scriptVars>>
    /\ UNCHANGED <<orchVars, dlVars, instVars, updVars>>

\* process_fs_event, lines 137-211: the paths of the event are filtered to
\* the direct children of the mods folder, then the task sleeps 500 ms
WatchRecv ==
    /\ wcur = NoFsEvent /\ fsq # <<>>
    /\ fsq' = Tail(fsq)
    /\ wcur' = IF parent(Head(fsq).path) = ModsPath THEN Head(fsq)
               ELSE NoFsEvent
    /\ UNCHANGED <<fs_seen, known_mods, emitted, sanVars, scriptVars>>
    /\ UNCHANGED <<orchVars, dlVars, instVars, updVars>>

\* process_fs_event, lines 220-306: EventKind::Remove of a known folder
WatchHandleRemove ==
    /\ wcur # NoFsEvent /\ wcur.kind = "Remove"
    /\ LET name == wcur.path[2]
       IN IF name \in DOMAIN known_mods
          THEN /\ known_mods' = Forget(known_mods, name)
               /\ emitted' = emitted \cup {ModRemoved(name, known_mods[name])}
          ELSE UNCHANGED <<known_mods, emitted>>
    /\ wcur' = NoFsEvent
    /\ UNCHANGED <<fs_seen, fsq, sanVars, scriptVars>>
    /\ UNCHANGED <<orchVars, dlVars, instVars, updVars>>

\* check_pending_folders, lines 731-757: every 5 seconds the known mods
\* whose folder no longer exists are forgotten and reported
WatchPeriodic ==
    /\ LET gone == {n \in DOMAIN known_mods : ~Exists(mods, n)}
       IN /\ gone # {}
          /\ known_mods' = [n \in DOMAIN known_mods \ gone |-> known_mods[n]]
          /\ emitted' = emitted \cup {ModRemoved(n, known_mods[n]) : n \in gone}
    /\ UNCHANGED <<fs_seen, fsq, wcur, sanVars, scriptVars>>
    /\ UNCHANGED <<orchVars, dlVars, instVars, updVars>>

NextWatch ==
    \/ \E t \in Tasks : UpdCall(t)
    \/ \E t \in Tasks : UpdResolve(t)
    \/ \E t \in Tasks : UpdBackup(t)
    \/ \E t \in Tasks : UpdRegister(t)
    \/ \E t \in Tasks : UpdRemove(t)
    \/ \E t \in Tasks : UpdSource(t)
    \/ \E t \in Tasks : UpdCopyBegin(t)
    \/ \E t \in Tasks : UpdCopyEnd(t)
    \/ \E t \in Tasks : UpdVerify(t)
    \/ \E t \in Tasks : UpdMarker(t)
    \/ ExternalRemove
    \/ FsNotifyRemove
    \/ WatchRecv
    \/ WatchHandleRemove
    \/ WatchPeriodic

SpecWatch == InitWatch /\ [][NextWatch]_vars

\* the path is an ignored path or below one
UnderIgnoredPath(path) ==
    \E n \in ignored :
        Len(path) >= 2 /\ path[1] = "mods" /\ path[2] = n

\* C29: no mod-added or mod-removed event is emitted for a path that is in
\* IgnoredPaths, or below a path that is, at the time of the emission.
C29_IgnoredPathsSuppressed ==
    [][\A e \in emitted' \ emitted : ~UnderIgnoredPath(e.path)]_vars


(***************************************************************************)
(* Claims about the detectors and the failure set of a batch.              *)
(***************************************************************************)
\* C30: a detector sends a success only for an item that is not in the
\* failure set of its batch, and no item whose success a detector sent in
\* an attempt is counted as failed from the tool's output by the result loop
\* of the same attempt.
C30_NoSuccessForFailedItem ==
    [][/\ \A i \in Items :
             (det[i] = "pending" /\ det'[i] = "some")
                 => i \notin failed_mods_tracker
       /\ \A b \in 1..MaxInstances :
             (bstate[b] = "collect" /\ cidx'[b] # cidx[b]
                /\ cidx[b] \in 1..Len(batches[b]))
                 => ~( /\ det[batches[b][cidx[b]]] = "some"
                       /\ batches[b][cidx[b]] \in failed_mods_tracker )]_vars


(***************************************************************************)
(* C31: a batch whose process exits with a non-zero code.                  *)
(***************************************************************************)
\* wait() of batch b returns a non-zero status in this step
NonZeroExit(b) == bstate[b] = "running" /\ bstate'[b] = "err"

ReadyToSend(i) ==
    /\ det[i] = "pending"
    /\ \E b \in 1..MaxInstances :
          InBatch(b, i) /\ bstate[b] \in {"running", "detect"}
    /\ dl[i] # "absent"
    /\ i \notin failed_mods_tracker
    /\ CanSend

\* C32 (as claimed): an item whose folder is present and non-empty can be
\* sent on the output channel at once, whether or not the fetch-tool process
\* of its batch has exited, and whatever the other items and batches of the
\* attempt are doing.
C32_SentWithoutWaiting ==
    \A i \in Items :
        ReadyToSend(i) => ENABLED (DetectFound(i) \/ DetectFoundAtTimeout(i))


(***************************************************************************)
(* C33: the "failed" lifecycle event.                                      *)
(***************************************************************************)
\* C33 (as claimed): "failed" is emitted for an item only when its retries
\* are exhausted: once the event was emitted for an item, no further attempt
\* is started for it, whichever attempt the tool reported the failure in.
C33_NoFailedBeforeLastAttempt ==
    [][\A i \in Items :
          "failed" \in events[i] => attempts'[i] = attempts[i]]_vars


(***************************************************************************)
(* C34: install tasks of one update_mods run.                              *)
(***************************************************************************)
\* C34 (as claimed): in one update_mods run at most one install task is
\* spawned per item ID, so no two install tasks of the run are inside
\* update_mod for the same item (deleting or copying the one destination
\* folder) at the same time.
C34_OneInstallTaskPerItem ==
    \A h1, h2 \in Handles :
        (h1 # h2 /\ update_handles[h1].id = update_handles[h2].id)
            => ~( /\ update_handles[h1].st = "installing"
                  /\ update_handles[h2].st = "installing" )


(***************************************************************************)
(* The batch script of download_mods_batch.                                *)
(*   SpecScript  the download_mods_batch invocations of NumRuns            *)
(*               orchestration runs (download_mod calls, update_mods) of   *)
(*               the one Downloader, each run with its attempts.           *)
(***************************************************************************)
Runs == 1..NumRuns

\* Downloader::new(None): the folder every run of the one Downloader uses
SteamcmdPath == "steamcmd"

\* steamcmd_path.join(format!("run_batch_{}.txt", batch_idx))
script_path(steamcmd_path, batch_idx) == <<steamcmd_path, "run_batch", batch_idx>>

ScriptPaths == {script_path(SteamcmdPath, b) : b \in 1..MaxInstances}

NoScript == <<>>

\* fs::write(&script_path, script_content): creates or replaces the file
WriteFile(files, path, content) == [files EXCEPT ![path] = content]

\* let _ = fs::remove_file(&script_path)
remove_file(files, path) == [files EXCEPT ![path] = NoScript]

\* the batches of a run: (batch_idx, batch) of batches.into_iter().enumerate()
BatchesOf(r) == 1..run_batches[r]

InitScript ==
    /\ run_batches \in [Runs -> 1..MaxInstances]
    /\ script_pc = [r \in Runs |-> [b \in 1..MaxInstances |->
                      IF b <= run_batches[r] THEN "start" ELSE "unused"]]
    /\ script_res = [r \in Runs |-> [b \in 1..MaxInstances |-> "none"]]
    /\ script_files = [p \in ScriptPaths |-> NoScript]
    /\ OrchOff /\ DlOff /\ InstOff /\ UpdOff
    /\ san_pc = "off" /\ san_name = <<>> /\ san_out = <<>>
    /\ fs_seen = {} /\ fsq = <<>> /\ wcur = NoFsEvent
    /\ known_mods = <<>> /\ emitted = {}

ScriptReturn(r, b, res) ==
    /\ script_pc' = [script_pc EXCEPT ![r][b] = "returned"]
    /\ script_res' = [script_res EXCEPT ![r][b] = res]

scriptRest == <<orchVars, dlVars, instVars, updVars, sanVars, watchVars>>

\* fs::write(..).map_err(..)? : the script of the batch is written
WriteScript(r, b) ==
    /\ script_pc[r][b] = "start"
    /\ \E written \in BOOLEAN :
         IF written
         THEN /\ script_files' = WriteFile(script_files,
                                           script_path(SteamcmdPath, b),
                                           <<r, b>>)
              /\ script_pc' = [script_pc EXCEPT ![r][b] = "written"]
              /\ UNCHANGED script_res
         ELSE /\ ScriptReturn(r, b, "write_failed")
              /\ UNCHANGED script_files
    /\ UNCHANGED <<run_batches, scriptRest>>

\* Command::new(..).arg("+runscript").arg(&script_path_absolute).spawn()
\* .map_err(..)? : a failure returns from download_mods_batch here
SpawnProcess(r, b) ==
    /\ script_pc[r][b] = "written"
    /\ \E spawned \in BOOLEAN :
         IF spawned
         THEN /\ script_pc' = [script_pc EXCEPT ![r][b] = "running"]
              /\ UNCHANGED script_res
         ELSE ScriptReturn(r, b, "spawn_failed")
    /\ UNCHANGED <<run_batches, script_files, scriptRest>>

\* steamcmd_process.wait().await.map_err(..)? and the test of the status:
\* a failed wait returns here; a non-zero status removes the script and
\* returns Err
WaitProcess(r, b) ==
    /\ script_pc[r][b] = "running"
    /\ \E outcome \in {"wait_failed", "non_zero", "success"} :
         CASE outcome = "wait_failed" ->
                /\ ScriptReturn(r, b, "wait_failed")
                /\ UNCHANGED script_files
           [] outcome = "non_zero" ->
                /\ script_files' = remove_file(script_files,
                                               script_path(SteamcmdPath, b))
                /\ ScriptReturn(r, b, "exit_failed")
           [] outcome = "success" ->
                /\ script_pc' = [script_pc EXCEPT ![r][b] = "collect"]
                /\ UNCHANGED <<script_res, script_files>>
    /\ UNCHANGED <<run_batches, scriptRest>>

\* join_all(download_promises), the result loop, "Clean up script file" and
\* the return of Ok or of "All mod downloads failed"
FinishBatch(r, b) ==
    /\ script_pc[r][b] = "collect"
    /\ script_files' = remove_file(script_files, script_path(SteamcmdPath, b))
    /\ \E res \in {"ok", "all_failed"} : ScriptReturn(r, b, res)
    /\ UNCHANGED <<run_batches, scriptRest>>

\* join_all(batch_futures) of the attempt returned; the run makes another
\* attempt (or the caller starts another run), again with batch_idx from 0
NextAttempt(r) ==
    /\ \A b \in BatchesOf(r) : script_pc[r][b] = "returned"
    /\ \E n \in 1..MaxInstances :
         /\ run_batches' = [run_batches EXCEPT ![r] = n]
         /\ script_pc' = [script_pc EXCEPT ![r] =
                            [b \in 1..MaxInstances |->
                               IF b <= n THEN "start" ELSE "unused"]]
    /\ script_res' = [script_res EXCEPT ![r] =
                        [b \in 1..MaxInstances |-> "none"]]
    /\ UNCHANGED <<script_files, scriptRest>>

NextScript ==
    \/ \E r \in Runs, b \in 1..MaxInstances : WriteScript(r, b)
    \/ \E r \in Runs, b \in 1..MaxInstances : SpawnProcess(r, b)
    \/ \E r \in Runs, b \in 1..MaxInstances : WaitProcess(r, b)
    \/ \E r \in Runs, b \in 1..MaxInstances : FinishBatch(r, b)
    \/ \E r \in Runs : NextAttempt(r)

SpecScript == InitScript /\ [][NextScript]_vars

\* the invocation wrote its script and has not returned
UsesScript(r, b) == script_pc[r][b] \in {"written", "running", "collect"}

\* C35 (as claimed): no two fetch-tool invocations that run at the same
\* time use the same batch-script path, within one attempt and across
\* orchestration runs that overlap in time.
C35_ScriptPathsDistinct ==
    \A r1, r2 \in Runs, b1, b2 \in 1..MaxInstances :
        (<<r1, b1>> # <<r2, b2>> /\ UsesScript(r1, b1) /\ UsesScript(r2, b2))
            => script_path(SteamcmdPath, b1) # script_path(SteamcmdPath, b2)

\* C36 (as claimed): whichever way a download_mods_batch invocation that
\* wrote its script returns (normal completion, non-zero exit, failure to
\* spawn, failure while waiting), the script file is not there afterwards.
C36_ScriptRemovedOnEveryExit ==
    [][\A r \in Runs, b \in 1..MaxInstances :
          (UsesScript(r, b) /\ script_pc'[r][b] = "returned")
              => script_files'[script_path(SteamcmdPath, b)] = NoScript]_vars


(***************************************************************************)
(* C37: remove_dir_with_retry(&mod_destination_path, 3, 200).              *)
(***************************************************************************)
\* C37: the removal of the destination makes at most 3 deletion attempts.
\* It ends with Ok (update_mod goes on to its source checks) exactly by an
\* attempt after which the folder is gone, which includes finding it gone;
\* another attempt follows only a failed one, and only the failure of the
\* third attempt returns the error, with which update_mod returns at once,
\* before any copy.
C37_RemoveRetryBounded ==
    [][\A t \in Tasks :
          (tpc[t] = "remove" /\ StepOf(t)) =>
              /\ tattempt[t] < 3 /\ tattempt'[t] < 3
              /\ ~Exists(mods, tdest[t]) => tpc'[t] = "source"
              /\ tpc'[t] = "source" => ~Exists(mods', tdest[t])
              /\ tattempt'[t] > tattempt[t] =>
                    /\ Exists(mods', tdest[t])
                    /\ tattempt'[t] = tattempt[t] + 1
                    /\ tpc'[t] = "remove"
              /\ tres'[t] = "remove_failed" =>
                    /\ tattempt[t] = 2
                    /\ Exists(mods', tdest[t])
                    /\ tpc'[t] = "done"
              /\ tpc'[t] \in {"remove", "source", "done"}]_vars

\* a call returned the error of the third failed attempt
C37_Witness ==
    \E t \in Tasks :
        /\ targ[t].kind = "update"
        /\ tres[t] = "remove_failed" /\ tpc[t] = "done"


(***************************************************************************)
(* C38: update_mod returning an error before the copy.                     *)
(***************************************************************************)
\* the errors of update_mod that precede the copy
EarlyErrors == {"source_missing", "source_incomplete", "cancelled"}

\* C38 (as claimed): when update_mod returns "source folder missing",
\* "source incomplete" or "cancelled", a destination folder that existed
\* before the call is still there with its content. Stated for a call that
\* found its destination by the item ID the folder carried, with no other
\* call started: the folder still exists and still carries the item ID.
C38_DestinationKeptOnEarlyError ==
    \A t \in Tasks :
        ( /\ targ[t].kind = "update" /\ tvia[t] = "reuse"
          /\ tpc[t] = "done" /\ tres[t] \in EarlyErrors
          /\ \A u \in Tasks \ {t} : tpc[u] = "idle" )
            => /\ Exists(mods, tdest[t])
               /\ query_mod_id(mods[tdest[t]]) = targ[t].mod_id


(***************************************************************************)
(* C39: the balancers partition the request.                               *)
(***************************************************************************)
\* the places (batch, position) where the ID is found in the batches
PlacesOf(id) ==
    UNION {{<<b, k>> : k \in {j \in 1..Len(batches[b]) : batches[b][j] = id}} :
              b \in DOMAIN batches}

\* C39: after either balancer, for every instance count of at least 1,
\* there is one batch per instance, every requested ID is at exactly one
\* place of exactly one batch, nothing that was not requested is in a
\* batch, and an ID without a size (counted as 0) is placed like the others.
C39_BalancersPartition ==
    opc = "balanced" =>
        /\ Len(batches) = max_instances
        /\ \A k \in 1..Len(mod_ids) : Cardinality(PlacesOf(mod_ids[k])) = 1
        /\ \A b \in DOMAIN batches : \A k \in 1..Len(batches[b]) :
              \E j \in 1..Len(mod_ids) : batches[b][k] = mod_ids[j]

\* balance_mods_by_size with more items than instances, where an ID has no
\* size in the map and another has one
C39_Witness ==
    /\ opc = "balanced" /\ has_sizes
    /\ max_instances > 1 /\ Len(mod_ids) > max_instances
    /\ \E j, k \in 1..Len(mod_ids) :
          /\ mod_sizes[mod_ids[j]] = 0 /\ mod_sizes[mod_ids[k]] > 0
          /\ Cardinality(PlacesOf(mod_ids[j])) = 1


(***************************************************************************)
(* C40: download_mod and the active-download set.                          *)
(***************************************************************************)
\* the call has marked its ID and has not returned
Marked(pc) == pc \in {"start", "fetching", "install"}

\* C40: every return of download_mod taken after the ID was marked
\* (download start error, channel error, channel closed, corrupted-folder
\* conflict, install error, success) leaves the ID out of the
\* active-download set, and an ID is in the set only while a call that
\* marked it has not returned.
C40_NoIdLeftDownloading ==
    [][/\ \A c \in Calls :
             (Marked(dpc[c]) /\ dpc'[c] = "returned")
                 => /\ did[c] \notin active_downloads'
                    /\ dres'[c] \in {"start_failed", "download_failed",
                                     "no_folder", "conflict",
                                     "update_failed", "ok"}
       /\ \A i \in active_downloads' :
             \E c \in Calls : did'[c] = i /\ Marked(dpc'[c])]_vars

\* a call returned the corrupted-folder conflict while another call, for
\* another item, is still marked
C40_Witness ==
    \E c1, c2 \in Calls :
        /\ dpc[c1] = "returned" /\ dres[c1] = "conflict"
        /\ Marked(dpc[c2]) /\ did[c2] # did[c1]
        /\ active_downloads = {did[c2]}

=============================================================================
